---- MODULE Spec2Model ----
(***************************************************************************)
(* Market-data core of flowsurface: the order-book cache                   *)
(* (exchange/src/depth.rs), the fixed-point price (exchange/src/util.rs)   *)
(* and the connection state machines of the Binance, OKX and Hyperliquid   *)
(* adapters (exchange/src/adapter/*.rs).                                   *)
(*                                                                         *)
(* Numbers.  An f32 price is written as a count of HALF atomic units       *)
(* (value * 2 * 10^PRICE_SCALE), so that Price::from_f32 has something to  *)
(* round.  An f32 quantity is a small natural number.  A BTreeMap is a     *)
(* function whose DOMAIN is the set of its keys.                           *)
(***************************************************************************)
EXTENDS Integers, Sequences, FiniteSets, TLC

VARIABLES
    exchange,          \* adapter that runs the stream task
    market,            \* MarketKind of the ticker
    kind,              \* "market" (depth+trades) or "kline" stream
    state,             \* connect.rs State: "Disconnected" | "Connected"
    pc,                \* position of the task: "loop" | "resync" (at rx.await of try_resync)
                       \* | "exited" (std::process::exit in http_request_with_limiter)
    pending,           \* the depth frame whose handler is suspended in try_resync
    orderbook,         \* LocalDepthCache
    trades_buffer,     \* Vec<Trade>
    already_fetching,  \* bool
    prev_id,           \* u64
    output,            \* events sent on the output channel by the last handler
    step,              \* history: what the last handler saw and did
    ref,               \* history: the last snapshot with the contiguous diffs folded in
    sync,              \* history: diffs applied since the last snapshot, pending gap
    decoded,           \* history: every trade decoded so far, in arrival order
    delivered,         \* history: trades carried by all DepthReceived events so far
    since_disc,        \* history: seconds the task has slept since the last
                       \* Event::Disconnected with no Event::Connected after it (-1: none),
                       \* saturating at BackoffSecs: the least time that can have passed
    session,           \* history: an Event::Connected was sent and no Event::Disconnected
                       \* after it
    now,               \* the clock, in ticks of half a second; SystemTime and Instant
                       \* read the same clock
    limiter,           \* the value inside the limiter mutex: a bucket or a venue limiter
    limiter_guard,     \* Option: the task that holds the tokio Mutex of the limiter
    tasks,             \* position of every task that sends REST requests
    call,              \* history: the call made on the limiter at this tick, if any, and
                       \* what it returned
    usage,             \* history: what the limiter admitted in the current wall-clock
                       \* window, and when the venue last reported a used weight
    result,            \* the values built by the last calls of the value types (Ticker,
                       \* Price), with the arguments they were given
    heap,              \* the Arc<Depth> allocations: address -> strong count and value
    held,              \* the DepthReceived events consumers hold, each with the address
                       \* of its Arc<Depth> and, as history, the book it showed on arrival
    size_calc_unit,    \* the static SIZE_CALC_UNIT as set_preferred_currency leaves it
    size_local,        \* Option: the local size_in_quote_ccy of a stream task that started
    cache_files        \* the archive cache under base_path: date -> Option of the file

vars == <<exchange, market, kind, state, pc, pending, orderbook, trades_buffer,
          already_fetching, prev_id, output, step, ref, sync, decoded, delivered,
          since_disc, session, now, limiter, limiter_guard, tasks, call, usage, result,
          heap, held,
          size_calc_unit, size_local, cache_files>>

\* state shared with the consumers of a stream, with the caller of
\* set_preferred_currency and with the file system
shared_vars == <<heap, held, size_calc_unit, size_local, cache_files>>

\* what the stream tasks leave alone
limiter_vars == <<now, limiter, limiter_guard, tasks, call, usage, result, shared_vars>>

(***************************************************************************)
(* Bounds of the model                                                     *)
(***************************************************************************)
MaxId == 3        \* update identifiers range over 0..MaxId
MaxTrades == 2    \* trades decoded in one behaviour
MaxLevels == 2    \* price levels in one depth payload

\* a field that holds no value; an Option<T> is <<>> or <<x>>
None == "None"

NoneOpt == <<>>

Some(x) == <<x>>

(***************************************************************************)
(* util.rs: Price                                                          *)
(***************************************************************************)
PRICE_SCALE == 8

RECURSIVE Pow10(_)
Pow10(n) == IF n <= 0 THEN 1 ELSE 10 * Pow10(n - 1)

\* i64::div_euclid for a positive divisor
div_euclid(a, b) == a \div b

\* f32::round (half away from zero) of h/2
F32Round(h) == IF h >= 0 THEN (h + 1) \div 2 ELSE -((1 - h) \div 2)

from_f32_lossy(v) == F32Round(v)

from_f32(v) == from_f32_lossy(v)

min_tick_units(min_tick) == Pow10(PRICE_SCALE + min_tick)

round_to_min_tick(units, min_tick) ==
    LET unit == min_tick_units(min_tick)
        half == unit \div 2
    IN  IF unit <= 1 THEN units ELSE div_euclid(units + half, unit) * unit

(***************************************************************************)
(* depth.rs: Depth and LocalDepthCache                                     *)
(***************************************************************************)
EmptyMap == [p \in {} |-> 0]

\* BTreeMap::insert
MapInsert(m, k, v) == [p \in DOMAIN m \cup {k} |-> IF p = k THEN v ELSE m[p]]

\* BTreeMap::remove
MapRemove(m, k) == [p \in DOMAIN m \ {k} |-> m[p]]

DepthDefault == [bids |-> EmptyMap, asks |-> EmptyMap]

LocalDepthCacheDefault == [last_update_id |-> 0, time |-> 0, depth |-> DepthDefault]

diff_price_levels_zero_kept(price_map, orders, min_ticksize) ==
    LET RECURSIVE go(_, _)
        go(m, i) ==
            IF i > Len(orders) THEN m
            ELSE go(MapInsert(m, round_to_min_tick(from_f32(orders[i].price), min_ticksize),
                              orders[i].qty), i + 1)
    IN  go(price_map, 1)

diff_price_levels(price_map, orders, min_ticksize) ==
    LET RECURSIVE go(_, _)
        go(m, i) ==
            IF i > Len(orders) THEN m
            ELSE LET price == round_to_min_tick(from_f32(orders[i].price), min_ticksize)
                     qty == orders[i].qty
                 IN  go(IF qty = 0 THEN MapRemove(m, price) ELSE MapInsert(m, price, qty),
                        i + 1)
    IN  go(price_map, 1)

\* Depth::update
DepthUpdateDiff(depth, diff, min_ticksize) ==
    [bids |-> diff_price_levels(depth.bids, diff.bids, min_ticksize),
     asks |-> diff_price_levels(depth.asks, diff.asks, min_ticksize)]

\* iter().map(..).collect::<BTreeMap>(): a later pair with the same key overwrites
collect(orders, min_ticksize) ==
    LET RECURSIVE go(_, _)
        go(m, i) ==
            IF i > Len(orders) THEN m
            ELSE go(MapInsert(m, round_to_min_tick(from_f32(orders[i].price), min_ticksize),
                              orders[i].qty), i + 1)
    IN  go(EmptyMap, 1)

replace_all_merged(depth, snapshot, min_ticksize) ==
    [bids |-> diff_price_levels(depth.bids, snapshot.bids, min_ticksize),
     asks |-> diff_price_levels(depth.asks, snapshot.asks, min_ticksize)]

replace_all(depth, snapshot, min_ticksize) ==
    [bids |-> collect(snapshot.bids, min_ticksize),
     asks |-> collect(snapshot.asks, min_ticksize)]

\* LocalDepthCache::update, DepthUpdate::Snapshot arm
UpdateSnapshot(cache, snapshot, min_ticksize) ==
    [last_update_id |-> snapshot.last_update_id,
     time |-> snapshot.time,
     depth |-> replace_all(cache.depth, snapshot, min_ticksize)]

\* LocalDepthCache::update, DepthUpdate::Diff arm
UpdateDiff(cache, diff, min_ticksize) ==
    [last_update_id |-> diff.last_update_id,
     time |-> diff.time,
     depth |-> DepthUpdateDiff(cache.depth, diff, min_ticksize)]

\* LocalDepthCache::update
update(cache, new_depth, min_ticksize) ==
    IF new_depth.tag = "Snapshot"
    THEN UpdateSnapshot(cache, new_depth.payload, min_ticksize)
    ELSE UpdateDiff(cache, new_depth.payload, min_ticksize)

(***************************************************************************)
(* Inputs: what the venue can send                                         *)
(***************************************************************************)
\* f32 prices in half atomic units: 19 and 28 both land on the tick 10, 41 on 20
RawPrices == {19, 28, 41}

Qtys == {0, 1, 2}

DeOrders == [price : RawPrices, qty : Qtys]

\* Vec<DeOrder> of at most MaxLevels entries
OrderSeqs == UNION {[1..n -> DeOrders] : n \in 0..MaxLevels}

\* the (bids, asks) a depth frame or REST book of a stream carries
StreamBooks ==
    { [bids |-> <<[price |-> 19, qty |-> 1]>>, asks |-> <<>>],
      [bids |-> <<[price |-> 28, qty |-> 0]>>, asks |-> <<[price |-> 41, qty |-> 2]>>] }

Ids == 1..MaxId

\* SpotDepth frames: U <= u
SpotDepths ==
    { [tag |-> "Spot", time |-> 0, first_id |-> f, final_id |-> u, prev_final_id |-> 0,
       bids |-> b.bids, asks |-> b.asks] : f \in Ids, u \in Ids, b \in StreamBooks }

\* PerpDepth frames: pu < U <= u
PerpDepths ==
    { [tag |-> "Perp", time |-> 0, first_id |-> f, final_id |-> u, prev_final_id |-> pu,
       bids |-> b.bids, asks |-> b.asks] : f \in Ids, u \in Ids, pu \in 0..MaxId, b \in StreamBooks }

SpotFrames == {d \in SpotDepths : d.first_id <= d.final_id}

PerpFrames == {d \in PerpDepths : d.first_id <= d.final_id /\ d.prev_final_id < d.first_id}

\* feed_de: the market kind selects the struct a depth frame is decoded into
SonicDepths(m) == IF m = "Spot" THEN SpotFrames ELSE PerpFrames

\* FetchedSpotDepth / FetchedPerpDepth: a REST book with its lastUpdateId
FetchedDepths == { [update_id |-> l, bids |-> b.bids, asks |-> b.asks] : l \in Ids, b \in StreamBooks }

NoFetched == [update_id |-> 0, bids |-> <<>>, asks |-> <<>>]

\* connect_ws, then the awaited fetch_depth: "err" | "chan" | an Ok book
ConnectOutcomes ==
    {[ws |-> "err", book |-> None, fetched |-> NoFetched]}
    \cup {[ws |-> "ok", book |-> b, fetched |-> NoFetched] : b \in {"err", "chan"}}
    \cup {[ws |-> "ok", book |-> "ok", fetched |-> f] : f \in FetchedDepths}

\* the fetch_depth awaited in try_resync
ResyncOutcomes ==
    {[res |-> r, fetched |-> NoFetched] : r \in {"err", "chan"}}
    \cup {[res |-> "ok", fetched |-> f] : f \in FetchedDepths}

\* SonicTrade: the n-th trade the venue sends, with n as its timestamp
SonicTradeAt(n) ==
    IF n % 2 = 1 THEN [time |-> n, price |-> 19, qty |-> 1, is_sell |-> FALSE]
    ELSE [time |-> n, price |-> 41, qty |-> 2, is_sell |-> TRUE]

\* the stream tasks the model runs: adapter, market kind, stream kind
Streams ==
    { <<"Binance", "Spot", "market">>, <<"Binance", "InversePerps", "market">>,
      <<"Binance", "Spot", "kline">>,
      <<"Okex", "Spot", "market">>, <<"Okex", "Spot", "kline">>,
      <<"Hyperliquid", "LinearPerps", "market">>, <<"Hyperliquid", "LinearPerps", "kline">> }

\* TickerInfo handed to connect_market_stream: a tick of 10^-7, no contract size
ticker_info == [min_ticksize |-> -7, contract_size |-> NoneOpt]

(***************************************************************************)
(* lib.rs / adapters: size unit and quantity conversion                    *)
(***************************************************************************)
\* static SIZE_CALC_UNIT, never changed by the stream tasks
SIZE_CALC_UNIT == "Base"

volume_size_unit == IF SIZE_CALC_UNIT = "Quote" THEN "Quote" ELSE "Base"

size_in_quote_ccy == volume_size_unit = "Quote"

\* (qty * price).round() with price in half atomic units
RoundQtyPrice(qty, price) == (qty * price + Pow10(PRICE_SCALE)) \div (2 * Pow10(PRICE_SCALE))

\* binance.rs get_contract_size (a ticker other than BTCUSD_PERP)
get_contract_size(m) == IF m = "InversePerps" THEN Some(10) ELSE NoneOpt

\* binance.rs calc_qty
calc_qty(qty, price, contract_size, in_quote) ==
    IF contract_size # NoneOpt THEN qty * contract_size[1]
    ELSE IF in_quote THEN RoundQtyPrice(qty, price)
    ELSE qty

\* okex.rs calc_qty
okex_calc_qty(qty, price, in_quote, contract_size, m) ==
    IF contract_size # NoneOpt
    THEN IF m = "InversePerps" THEN (IF in_quote THEN qty * contract_size[1] ELSE qty)
         ELSE IF in_quote THEN RoundQtyPrice(qty * contract_size[1], price)
         ELSE qty * contract_size[1]
    ELSE IF in_quote THEN RoundQtyPrice(qty, price)
    ELSE qty

MapOrders(orders, F(_)) == [i \in DOMAIN orders |-> [price |-> orders[i].price, qty |-> F(orders[i])]]

\* binance.rs new_depth_cache
new_depth_cache(depth, contract_size) ==
    LET q(x) == calc_qty(x.qty, x.price, contract_size, size_in_quote_ccy)
    IN  [last_update_id |-> depth.final_id, time |-> depth.time,
         bids |-> MapOrders(depth.bids, q), asks |-> MapOrders(depth.asks, q)]

\* binance.rs fetch_depth, the Ok result built from the REST body
fetch_depth(fetched, contract_size) ==
    LET q(x) == calc_qty(x.qty, x.price, contract_size, size_in_quote_ccy)
    IN  [last_update_id |-> fetched.update_id, time |-> 0,
         bids |-> MapOrders(fetched.bids, q), asks |-> MapOrders(fetched.asks, q)]

(***************************************************************************)
(* Events and small helpers                                                *)
(***************************************************************************)
Connected == [type |-> "Connected"]

Disconnected(reason) == [type |-> "Disconnected", reason |-> reason]

DepthReceived(depth, trades) == [type |-> "DepthReceived", depth |-> depth, trades |-> trades]

KlineReceived == [type |-> "KlineReceived"]

Count(events, type) == Cardinality({i \in DOMAIN events : events[i].type = type})

Has(events, type) == Count(events, type) > 0

Min(a, b) == IF a < b THEN a ELSE b

\* tokio::time::sleep(Duration::from_secs(1)) before a retry
BackoffSecs == 1

\* variant of the take below that leaves the buffer as it was
mem_take_keep(buf) == [taken |-> buf, left |-> buf]

\* std::mem::take(&mut trades_buffer)
mem_take(buf) == [taken |-> buf, left |-> <<>>]

(***************************************************************************)
(* History of one handler                                                  *)
(***************************************************************************)
NoStep ==
    [op |-> "init",       \* handler that ran
     was |-> "Disconnected", \* state when it started
     trigger |-> None,    \* "close" | "error" | "desync"
     handshake |-> None,  \* connect_ws: "ok" | "err"
     subscribed |-> None, \* subscription write_frame: "ok" | "err"
     book |-> None,       \* initial REST order book: "ok" | "err" | "chan" | "empty"
     resync |-> None,     \* try_resync: "pending" | "ok" | "err" | "chan"
     gap |-> FALSE,       \* the diff did not adjoin the applied identifier
     fresh |-> FALSE,     \* the diff is not older than the cache
     applied |-> NoneOpt,    \* the diff folded into the cache, with the cache id before
     slept |-> 0,         \* seconds slept before the handler's emission
     disc_gap |-> -1]     \* seconds slept since the previous Event::Disconnected, at emission

NoRef == [on |-> FALSE]

NoSync == [first |-> TRUE, final |-> 0, need |-> FALSE]

\* seconds since the previous Disconnected once the handler has slept
Elapsed(slept) == IF since_disc = -1 THEN -1 ELSE Min(since_disc + slept, BackoffSecs)

DiscGap(out, slept) == IF Has(out, "Disconnected") THEN Elapsed(slept) ELSE -1

SinceDiscAfter(out, slept) ==
    IF Has(out, "Connected") THEN -1
    ELSE IF Has(out, "Disconnected") THEN 0
    ELSE Elapsed(slept)

RECURSIVE TradesOf(_)
TradesOf(events) ==
    IF events = <<>> THEN <<>>
    ELSE (IF Head(events).type = "DepthReceived" THEN Head(events).trades ELSE <<>>)
         \o TradesOf(Tail(events))

\* whether the events sent so far end inside a session: the last Connected or
\* Disconnected among them is a Connected
RECURSIVE SessionAfter(_, _)
SessionAfter(open, events) ==
    IF events = <<>> THEN open
    ELSE SessionAfter(CASE Head(events).type = "Connected" -> TRUE
                        [] Head(events).type = "Disconnected" -> FALSE
                        [] OTHER -> open,
                      Tail(events))

\* the bookkeeping every handler ends with
Emit(out, slept, st) ==
    /\ output' = out
    /\ step' = [st EXCEPT !.was = state, !.slept = slept, !.disc_gap = DiscGap(out, slept)]
    /\ since_disc' = SinceDiscAfter(out, slept)
    /\ session' = SessionAfter(session, out)
    /\ delivered' = delivered \o TradesOf(out)

\* the reference of a session: a snapshot with identifier L > 0
RefStart(snapshot) ==
    [on |-> TRUE,
     cache |-> update(LocalDepthCacheDefault, [tag |-> "Snapshot", payload |-> snapshot],
                      ticker_info.min_ticksize),
     base |-> snapshot.last_update_id, count |-> 0, last |-> snapshot.last_update_id]

\* the identifier a diff names as its predecessor
Predecessor(d) == IF d.tag = "Spot" THEN d.first_id - 1 ELSE d.prev_final_id

\* the reference folds every diff newer than the snapshot while the diffs adjoin
RefFold(r, d, contract_size) ==
    IF ~r.on THEN r
    ELSE IF r.count = 0 /\ d.final_id <= r.base THEN r
    ELSE IF \/ r.count = 0 /\ d.first_id <= r.base + 1
            \/ r.count > 0 /\ Predecessor(d) = r.last
    THEN [r EXCEPT !.cache = update(@, [tag |-> "Diff",
                                        payload |-> new_depth_cache(d, contract_size)],
                                    ticker_info.min_ticksize),
                   !.count = @ + 1, !.last = d.final_id]
    ELSE NoRef

(***************************************************************************)
(* binance.rs connect_market_stream                                        *)
(***************************************************************************)
\* variant of the arm below that goes Connected whatever fetch_depth returned
BinanceConnectedAnyway(ws, book, snapshot, ob) ==
    IF ws = "ok"
    THEN [state |-> "Connected",
          orderbook |-> IF book = "ok"
                        THEN update(ob, [tag |-> "Snapshot", payload |-> snapshot],
                                    ticker_info.min_ticksize)
                        ELSE ob,
          reset |-> TRUE, slept |-> 0, output |-> <<Connected>>]
    ELSE [state |-> "Disconnected", orderbook |-> ob, reset |-> FALSE, slept |-> BackoffSecs,
          output |-> <<Disconnected("Failed to connect to websocket")>>]

\* variant of the arm below that leaves prev_id as the last session left it
BinanceConnectResultPrevIdKept(ws, book, snapshot, ob) ==
    IF ws = "ok"
    THEN CASE book = "ok" ->
                [state |-> "Connected",
                 orderbook |-> update(ob, [tag |-> "Snapshot", payload |-> snapshot],
                                      ticker_info.min_ticksize),
                 reset |-> FALSE, slept |-> 0, output |-> <<Connected>>]
           [] book = "err" ->
                [state |-> "Disconnected", orderbook |-> ob, reset |-> FALSE, slept |-> 0,
                 output |-> <<Disconnected("Depth fetch failed")>>]
           [] OTHER ->
                [state |-> "Disconnected", orderbook |-> ob, reset |-> FALSE, slept |-> 0,
                 output |-> <<Disconnected("Channel error")>>]
    ELSE [state |-> "Disconnected", orderbook |-> ob, reset |-> FALSE, slept |-> BackoffSecs,
          output |-> <<Disconnected("Failed to connect to websocket")>>]

\* State::Disconnected arm: what follows connect_ws and the awaited fetch_depth
BinanceConnectResult(ws, book, snapshot, ob) ==
    IF ws = "ok"
    THEN CASE book = "ok" ->
                [state |-> "Connected",
                 orderbook |-> update(ob, [tag |-> "Snapshot", payload |-> snapshot],
                                      ticker_info.min_ticksize),
                 reset |-> TRUE, slept |-> 0, output |-> <<Connected>>]
           [] book = "err" ->
                [state |-> "Disconnected", orderbook |-> ob, reset |-> FALSE, slept |-> 0,
                 output |-> <<Disconnected("Depth fetch failed")>>]
           [] OTHER ->
                [state |-> "Disconnected", orderbook |-> ob, reset |-> FALSE, slept |-> 0,
                 output |-> <<Disconnected("Channel error")>>]
    ELSE [state |-> "Disconnected", orderbook |-> ob, reset |-> FALSE, slept |-> BackoffSecs,
          output |-> <<Disconnected("Failed to connect to websocket")>>]

\* variant of the operator below that starts every session with an empty buffer
entering_connected_buffer_cleared(buf) == <<>>

\* trades_buffer is declared before the loop and no State::Disconnected arm assigns it:
\* the buffer a session starts with is the one the last session left
entering_connected(buf) == buf

BinanceMarketConnect ==
    /\ exchange = "Binance" /\ kind = "market"
    /\ state = "Disconnected" /\ pc = "loop"
    /\ \E o \in ConnectOutcomes :
          LET ws == o.ws
              book == o.book
              snapshot == fetch_depth(o.fetched, get_contract_size(market))
              r == BinanceConnectResult(ws, book, snapshot, orderbook)
              got == ws = "ok" /\ book = "ok"
          IN  /\ state' = r.state
              /\ trades_buffer' = IF r.state = "Connected"
                                  THEN entering_connected(trades_buffer)
                                  ELSE trades_buffer
              /\ orderbook' = r.orderbook
              /\ prev_id' = IF r.reset THEN 0 ELSE prev_id
              /\ ref' = IF got THEN RefStart(snapshot) ELSE ref
              /\ sync' = IF got THEN NoSync ELSE sync
              /\ Emit(r.output, r.slept,
                      [NoStep EXCEPT !.op = "connect", !.handshake = ws,
                                     !.book = book])
    /\ UNCHANGED <<limiter_vars, exchange, market, kind, pc, pending, already_fetching,
                   decoded>>

\* StreamData::Trade arm
BinanceTrade(de_trade, contract_size) ==
    [time |-> de_trade.time,
     is_sell |-> de_trade.is_sell,
     price |-> round_to_min_tick(from_f32(de_trade.price), ticker_info.min_ticksize),
     qty |-> IF contract_size = NoneOpt
             THEN (IF size_in_quote_ccy THEN RoundQtyPrice(de_trade.qty, de_trade.price)
                   ELSE de_trade.qty)
             ELSE de_trade.qty * contract_size[1]]

BinanceReadTrade ==
    /\ exchange = "Binance" /\ kind = "market"
    /\ state = "Connected" /\ pc = "loop"
    /\ Len(decoded) < MaxTrades
    /\ LET trade == BinanceTrade(SonicTradeAt(Len(decoded) + 1), get_contract_size(market))
       IN  /\ trades_buffer' = Append(trades_buffer, trade)
           /\ decoded' = Append(decoded, trade)
    /\ Emit(<<>>, 0, [NoStep EXCEPT !.op = "trade"])
    /\ UNCHANGED <<limiter_vars, exchange, market, kind, state, pc, pending, orderbook, already_fetching,
                   prev_id, ref, sync>>

\* the check that follows try_resync: fold the diff and emit, or give the session up
BinanceFoldOrDesync(d, st, ob, buf, prev, contract_size) ==
    IF prev = 0 \/ prev = Predecessor(d)
    THEN LET nb == update(ob, [tag |-> "Diff", payload |-> new_depth_cache(d, contract_size)],
                          ticker_info.min_ticksize)
             t == mem_take(buf)
         IN  [state |-> st, orderbook |-> nb, trades_buffer |-> t.left,
              prev_id |-> d.final_id,
              output |-> <<DepthReceived(nb.depth, t.taken)>>, applied |-> TRUE]
    ELSE [state |-> "Disconnected", orderbook |-> ob, trades_buffer |-> buf, prev_id |-> prev,
          output |-> <<Disconnected("Out of sync")>>, applied |-> FALSE]

\* what the depth arm decides before it folds: "skip" | "resync" | "fold"
BinanceDepthGate(d, last_update_id, prev, fetching) ==
    IF fetching THEN "skip"
    ELSE IF d.final_id <= last_update_id \/ last_update_id = 0 THEN "skip"
    ELSE IF (prev = 0 /\ d.first_id > last_update_id + 1) \/ (last_update_id + 1 > d.final_id)
    THEN "resync"
    ELSE "fold"

\* history: the diff is newer than the cache, and whether it adjoins what was applied
Fresh(d) == d.final_id > orderbook.last_update_id

Gap(d) ==
    /\ Fresh(d)
    /\ IF sync.first THEN d.first_id > orderbook.last_update_id + 1
       ELSE Predecessor(d) # sync.final

AppliedRecord(d, pre) ==
    [pre |-> pre, first_id |-> d.first_id, final_id |-> d.final_id,
     prev_final_id |-> d.prev_final_id, first |-> sync.first, last_final |-> sync.final]

BinanceReadDepth ==
    /\ exchange = "Binance" /\ kind = "market"
    /\ state = "Connected" /\ pc = "loop"
    /\ \E d \in SonicDepths(market) :
          LET gate == BinanceDepthGate(d, orderbook.last_update_id, prev_id, already_fetching)
              r == BinanceFoldOrDesync(d, state, orderbook, trades_buffer, prev_id,
                                       get_contract_size(market))
              st == [NoStep EXCEPT !.op = "depth", !.gap = Gap(d), !.fresh = Fresh(d),
                                   !.trigger = IF Gap(d) /\ ~sync.first THEN "desync" ELSE None]
          IN  /\ ref' = IF gate = "resync" THEN ref
                        ELSE RefFold(ref, d, get_contract_size(market))
              /\ CASE gate = "skip" ->
                       /\ Emit(<<>>, 0, st)
                       /\ sync' = [sync EXCEPT !.need = @ \/ Gap(d)]
                       /\ UNCHANGED <<state, pc, pending, orderbook, trades_buffer,
                                      already_fetching, prev_id>>
                   [] gate = "resync" ->
                       /\ already_fetching' = TRUE
                       /\ pc' = "resync"
                       /\ pending' = Some(d)
                       /\ Emit(<<>>, 0, [st EXCEPT !.resync = "pending"])
                       /\ sync' = [sync EXCEPT !.need = @ \/ Gap(d)]
                       /\ UNCHANGED <<state, orderbook, trades_buffer, prev_id>>
                   [] OTHER ->
                       /\ state' = r.state
                       /\ orderbook' = r.orderbook
                       /\ trades_buffer' = r.trades_buffer
                       /\ prev_id' = r.prev_id
                       /\ sync' = IF r.applied
                                  THEN [first |-> FALSE, final |-> d.final_id,
                                        need |-> sync.need \/ Gap(d)]
                                  ELSE [sync EXCEPT !.need = @ \/ Gap(d)]
                       /\ Emit(r.output, 0,
                               [st EXCEPT !.applied =
                                    IF r.applied
                                    THEN Some(AppliedRecord(d, orderbook.last_update_id))
                                    ELSE NoneOpt])
                       /\ UNCHANGED <<pc, pending, already_fetching>>
    /\ UNCHANGED <<limiter_vars, exchange, market, kind, decoded>>

\* try_resync from rx.await on, then the rest of the depth arm
BinanceResyncResult(res, snapshot, st, ob) ==
    CASE res = "ok" ->
            [state |-> st,
             orderbook |-> update(ob, [tag |-> "Snapshot", payload |-> snapshot],
                                  ticker_info.min_ticksize),
             output |-> <<>>]
      [] res = "err" ->
            [state |-> st, orderbook |-> ob, output |-> <<Disconnected("Depth fetch failed")>>]
      [] OTHER ->
            [state |-> "Disconnected", orderbook |-> ob,
             output |-> <<Disconnected("Failed to send fetched depth")>>]

\* variant of the reset below that keeps the flag up after a fetch that failed
fetching_after_failure_kept(res) == res # "ok"

\* try_resync: `*already_fetching = false` after the match, whatever arm ran
fetching_after(res) == FALSE

BinanceResyncDone ==
    /\ exchange = "Binance" /\ kind = "market"
    /\ pc = "resync"
    /\ \E o \in ResyncOutcomes :
          LET cs == get_contract_size(market)
              res == o.res
              snapshot == fetch_depth(o.fetched, cs)
              a == BinanceResyncResult(res, snapshot, state, orderbook)
              d == pending[1]
              r == BinanceFoldOrDesync(d, a.state, a.orderbook, trades_buffer, prev_id, cs)
              sy == IF res = "ok" THEN NoSync ELSE sync
          IN  /\ state' = r.state
              /\ orderbook' = r.orderbook
              /\ trades_buffer' = r.trades_buffer
              /\ prev_id' = r.prev_id
              /\ ref' = IF res = "ok" THEN RefFold(RefStart(snapshot), d, cs)
                        ELSE RefFold(ref, d, cs)
              /\ sync' = IF r.applied
                         THEN [first |-> FALSE, final |-> d.final_id, need |-> sy.need]
                         ELSE sy
              /\ Emit(a.output \o r.output, 0,
                      [step EXCEPT !.op = "resync", !.resync = res,
                                   !.applied =
                                       IF r.applied
                                       THEN Some([pre |-> a.orderbook.last_update_id,
                                                  first_id |-> d.first_id,
                                                  final_id |-> d.final_id,
                                                  prev_final_id |-> d.prev_final_id,
                                                  first |-> sy.first,
                                                  last_final |-> sy.final])
                                       ELSE NoneOpt])
              /\ already_fetching' = fetching_after(res)
    /\ pc' = "loop"
    /\ pending' = NoneOpt
    /\ UNCHANGED <<limiter_vars, exchange, market, kind, decoded>>

\* limiter.rs http_request_with_limiter: the venue answers the fetch_depth of a connect
\* attempt or of try_resync with a status should_exit_on_response accepts, and
\* std::process::exit(1) ends the process with the task where it stands
BinanceFetchExit ==
    /\ exchange = "Binance" /\ kind = "market"
    /\ \/ state = "Disconnected" /\ pc = "loop"
       \/ pc = "resync"
    /\ pc' = "exited"
    /\ Emit(<<>>, 0, [NoStep EXCEPT !.op = "exit"])
    /\ UNCHANGED <<limiter_vars, exchange, market, kind, state, pending, orderbook, trades_buffer,
                   already_fetching, prev_id, ref, sync, decoded>>

\* variant of the Close arm that sends no event
CloseSilently(reason) == [state |-> "Disconnected", output |-> <<>>]

\* OpCode::Close arm
OnClose(reason) == [state |-> "Disconnected", output |-> <<Disconnected(reason)>>]

\* Err(e) arm of read_frame
OnReadError(reason) == [state |-> "Disconnected", output |-> <<Disconnected(reason)>>]

BinanceReadClose ==
    /\ exchange = "Binance"
    /\ state = "Connected" /\ pc = "loop"
    /\ LET r == OnClose("Connection closed")
       IN  /\ state' = r.state
           /\ Emit(r.output, 0, [NoStep EXCEPT !.op = "close", !.trigger = "close"])
    /\ UNCHANGED <<limiter_vars, exchange, market, kind, pc, pending, orderbook, trades_buffer,
                   already_fetching, prev_id, ref, sync, decoded>>

BinanceReadError ==
    /\ exchange = "Binance"
    /\ state = "Connected" /\ pc = "loop"
    /\ LET r == OnReadError("Error reading frame")
       IN  /\ state' = r.state
           /\ Emit(r.output, 0, [NoStep EXCEPT !.op = "error", !.trigger = "error"])
    /\ UNCHANGED <<limiter_vars, exchange, market, kind, pc, pending, orderbook, trades_buffer,
                   already_fetching, prev_id, ref, sync, decoded>>

\* variant of the skip below that gives the connection up on a frame it cannot decode
FrameTearsDown(st, ob, buf, prev) ==
    [state |-> "Disconnected", orderbook |-> ob, trades_buffer |-> <<>>, prev_id |-> prev,
     output |-> <<Disconnected("Failed to parse ws data")>>]

\* OpCode::Text with feed_de returning Err: `if let Ok(data)` has no else branch
FrameSkipped(st, ob, buf, prev) ==
    [state |-> st, orderbook |-> ob, trades_buffer |-> buf, prev_id |-> prev, output |-> <<>>]

\* a text frame feed_de rejects or that carries another stream's data, or any other opcode
BinanceReadIgnored ==
    /\ exchange = "Binance"
    /\ state = "Connected" /\ pc = "loop"
    /\ LET r == FrameSkipped(state, orderbook, trades_buffer, prev_id)
       IN  /\ state' = r.state
           /\ orderbook' = r.orderbook
           /\ trades_buffer' = r.trades_buffer
           /\ prev_id' = r.prev_id
           /\ Emit(r.output, 0, [NoStep EXCEPT !.op = "ignored"])
    /\ UNCHANGED <<limiter_vars, exchange, market, kind, pc, pending, already_fetching, ref, sync, decoded>>

\* variant of the arm below that emits Connected and forgets to keep the websocket
BinanceKlineStaysDisconnected(ws) ==
    IF ws = "ok"
    THEN [state |-> "Disconnected", slept |-> 0, output |-> <<Connected>>]
    ELSE [state |-> "Disconnected", slept |-> BackoffSecs,
          output |-> <<Disconnected("Failed to connect to websocket")>>]

\* connect_kline_stream, State::Disconnected arm
BinanceKlineConnectResult(ws) ==
    IF ws = "ok"
    THEN [state |-> "Connected", slept |-> 0, output |-> <<Connected>>]
    ELSE [state |-> "Disconnected", slept |-> BackoffSecs,
          output |-> <<Disconnected("Failed to connect to websocket")>>]

BinanceKlineConnect ==
    /\ exchange = "Binance" /\ kind = "kline"
    /\ state = "Disconnected"
    /\ \E ws \in {"ok", "err"} :
          LET r == BinanceKlineConnectResult(ws)
          IN  /\ state' = r.state
              /\ Emit(r.output, r.slept, [NoStep EXCEPT !.op = "connect", !.handshake = ws])
    /\ UNCHANGED <<limiter_vars, exchange, market, kind, pc, pending, orderbook, trades_buffer,
                   already_fetching, prev_id, ref, sync, decoded>>

\* connect_kline_stream, OpCode::Text arm: a candle of a subscribed stream is forwarded
KlineEvents(matched) == IF matched THEN <<KlineReceived>> ELSE <<>>

BinanceReadKline ==
    /\ exchange = "Binance" /\ kind = "kline"
    /\ state = "Connected"
    /\ \E matched \in BOOLEAN : Emit(KlineEvents(matched), 0, [NoStep EXCEPT !.op = "kline"])
    /\ UNCHANGED <<limiter_vars, exchange, market, kind, state, pc, pending, orderbook, trades_buffer,
                   already_fetching, prev_id, ref, sync, decoded>>

(***************************************************************************)
(* okex.rs                                                                 *)
(***************************************************************************)
\* try_connect
OkexTryConnectResult(ws, wr) ==
    IF ws = "ok"
    THEN IF wr = "err"
         THEN [state |-> "Disconnected", slept |-> 0,
               output |-> <<Disconnected("Failed subscribing")>>]
         ELSE [state |-> "Connected", slept |-> 0, output |-> <<Connected>>]
    ELSE [state |-> "Disconnected", slept |-> BackoffSecs,
          output |-> <<Disconnected("Failed to connect")>>]

\* connect_ws, then write_frame of the subscription
SubscribeOutcomes ==
    {[ws |-> "err", wr |-> None], [ws |-> "ok", wr |-> "err"], [ws |-> "ok", wr |-> "ok"]}

OkexTryConnect ==
    /\ exchange = "Okex"
    /\ state = "Disconnected"
    /\ \E o \in SubscribeOutcomes :
          LET r == OkexTryConnectResult(o.ws, o.wr)
          IN  /\ state' = r.state
              /\ trades_buffer' = IF r.state = "Connected"
                                  THEN entering_connected(trades_buffer)
                                  ELSE trades_buffer
              /\ Emit(r.output, r.slept,
                      [NoStep EXCEPT !.op = "connect", !.handshake = o.ws,
                                     !.subscribed = o.wr])
    /\ UNCHANGED <<limiter_vars, exchange, market, kind, pc, pending, orderbook,
                   already_fetching, prev_id, ref, sync, decoded>>

\* the trades of one frame: the venue's trades n+1 .. n+k
TradeBatch(n, k) == [i \in 1..k |-> SonicTradeAt(n + i)]

Side(de_trade) == IF de_trade.is_sell THEN "sell" ELSE "buy"

OkexTrade(de_trade, contract_size) ==
    [time |-> de_trade.time,
     is_sell |-> Side(de_trade) = "sell" \/ Side(de_trade) = "SELL",
     price |-> round_to_min_tick(from_f32(de_trade.price), ticker_info.min_ticksize),
     qty |-> okex_calc_qty(de_trade.qty, de_trade.price, size_in_quote_ccy, contract_size,
                           market)]

OkexReadTrade ==
    /\ exchange = "Okex" /\ kind = "market"
    /\ state = "Connected"
    /\ \E k \in 1..(MaxTrades - Len(decoded)) :
          LET batch == TradeBatch(Len(decoded), k)
              trades == [i \in 1..k |-> OkexTrade(batch[i], ticker_info.contract_size)]
          IN  /\ trades_buffer' = trades_buffer \o trades
              /\ decoded' = decoded \o trades
    /\ Emit(<<>>, 0, [NoStep EXCEPT !.op = "trade"])
    /\ UNCHANGED <<limiter_vars, exchange, market, kind, state, pc, pending, orderbook, already_fetching,
                   prev_id, ref, sync>>

\* StreamData::Depth frames of the books channel
OkexDepths ==
    { [update_id |-> u, data_type |-> t, time |-> 0, bids |-> b.bids, asks |-> b.asks] :
        u \in Ids, t \in {"snapshot", "delta"}, b \in StreamBooks }

OkexPayload(de_depth, contract_size) ==
    LET q(x) == okex_calc_qty(x.qty, x.price, size_in_quote_ccy, contract_size, market)
    IN  [last_update_id |-> de_depth.update_id, time |-> de_depth.time,
         bids |-> MapOrders(de_depth.bids, q), asks |-> MapOrders(de_depth.asks, q)]

\* StreamData::Depth arm
OkexDepthResult(de_depth, ob, buf, contract_size) ==
    LET depth == OkexPayload(de_depth, contract_size)
    IN  IF de_depth.data_type = "snapshot" \/ depth.last_update_id = 1
        THEN [orderbook |-> update(ob, [tag |-> "Snapshot", payload |-> depth],
                                   ticker_info.min_ticksize),
              trades_buffer |-> buf, output |-> <<>>, applied |-> FALSE]
        ELSE IF de_depth.data_type = "delta"
        THEN LET nb == update(ob, [tag |-> "Diff", payload |-> depth],
                              ticker_info.min_ticksize)
                 t == mem_take(buf)
             IN  [orderbook |-> nb, trades_buffer |-> t.left,
                  output |-> <<DepthReceived(nb.depth, t.taken)>>, applied |-> TRUE]
        ELSE [orderbook |-> ob, trades_buffer |-> buf, output |-> <<>>, applied |-> FALSE]

OkexReadDepth ==
    /\ exchange = "Okex" /\ kind = "market"
    /\ state = "Connected"
    /\ \E d \in OkexDepths :
          LET r == OkexDepthResult(d, orderbook, trades_buffer, ticker_info.contract_size)
          IN  /\ orderbook' = r.orderbook
              /\ trades_buffer' = r.trades_buffer
              /\ sync' = IF r.applied
                         THEN [first |-> FALSE, final |-> d.update_id, need |-> sync.need]
                         ELSE NoSync
              /\ Emit(r.output, 0,
                      [NoStep EXCEPT !.op = "depth",
                                     !.fresh = d.update_id > orderbook.last_update_id,
                                     !.applied =
                                         IF r.applied
                                         THEN Some([pre |-> orderbook.last_update_id,
                                                    first_id |-> 0,
                                                    final_id |-> d.update_id,
                                                    prev_final_id |-> 0,
                                                    first |-> sync.first,
                                                    last_final |-> sync.final])
                                         ELSE NoneOpt])
    /\ UNCHANGED <<limiter_vars, exchange, market, kind, state, pc, pending, already_fetching, prev_id,
                   ref, decoded>>

OkexReadKline ==
    /\ exchange = "Okex" /\ kind = "kline"
    /\ state = "Connected"
    /\ \E matched \in BOOLEAN : Emit(KlineEvents(matched), 0, [NoStep EXCEPT !.op = "kline"])
    /\ UNCHANGED <<limiter_vars, exchange, market, kind, state, pc, pending, orderbook, trades_buffer,
                   already_fetching, prev_id, ref, sync, decoded>>

OkexReadClose ==
    /\ exchange = "Okex"
    /\ state = "Connected"
    /\ LET r == OnClose("Connection closed")
       IN  /\ state' = r.state
           /\ Emit(r.output, 0, [NoStep EXCEPT !.op = "close", !.trigger = "close"])
    /\ UNCHANGED <<limiter_vars, exchange, market, kind, pc, pending, orderbook, trades_buffer,
                   already_fetching, prev_id, ref, sync, decoded>>

OkexReadError ==
    /\ exchange = "Okex"
    /\ state = "Connected"
    /\ LET r == OnReadError("Error reading frame")
       IN  /\ state' = r.state
           /\ Emit(r.output, 0, [NoStep EXCEPT !.op = "error", !.trigger = "error"])
    /\ UNCHANGED <<limiter_vars, exchange, market, kind, pc, pending, orderbook, trades_buffer,
                   already_fetching, prev_id, ref, sync, decoded>>

OkexReadIgnored ==
    /\ exchange = "Okex"
    /\ state = "Connected"
    /\ LET r == FrameSkipped(state, orderbook, trades_buffer, prev_id)
       IN  /\ state' = r.state
           /\ orderbook' = r.orderbook
           /\ trades_buffer' = r.trades_buffer
           /\ prev_id' = r.prev_id
           /\ Emit(r.output, 0, [NoStep EXCEPT !.op = "ignored"])
    /\ UNCHANGED <<limiter_vars, exchange, market, kind, pc, pending, already_fetching, ref, sync, decoded>>

(***************************************************************************)
(* hyperliquid.rs                                                          *)
(***************************************************************************)
\* fetch_orderbook for the price, connect_websocket, then the two subscriptions
HlConnectOutcomes ==
    {[book |-> b, ws |-> None, sub1 |-> None, sub2 |-> None] : b \in {"err", "empty"}}
    \cup {[book |-> "ok", ws |-> "err", sub1 |-> None, sub2 |-> None],
          [book |-> "ok", ws |-> "ok", sub1 |-> "err", sub2 |-> None],
          [book |-> "ok", ws |-> "ok", sub1 |-> "ok", sub2 |-> "err"],
          [book |-> "ok", ws |-> "ok", sub1 |-> "ok", sub2 |-> "ok"]}

\* connect_market_stream, State::Disconnected arm
HlConnectResult(o) ==
    IF o.book # "ok"
    THEN [state |-> "Disconnected", slept |-> BackoffSecs, output |-> <<>>]
    ELSE IF o.ws # "ok"
    THEN [state |-> "Disconnected", slept |-> BackoffSecs,
          output |-> <<Disconnected("Failed to connect to websocket")>>]
    ELSE IF o.sub1 # "ok" \/ o.sub2 # "ok"
    THEN [state |-> "Disconnected", slept |-> BackoffSecs, output |-> <<>>]
    ELSE [state |-> "Connected", slept |-> 0, output |-> <<Connected>>]

HlMarketConnect ==
    /\ exchange = "Hyperliquid" /\ kind = "market"
    /\ state = "Disconnected" /\ pc = "loop"
    /\ \E o \in HlConnectOutcomes :
          LET r == HlConnectResult(o)
          IN  /\ state' = r.state
              /\ trades_buffer' = IF r.state = "Connected"
                                  THEN entering_connected(trades_buffer)
                                  ELSE trades_buffer
              /\ Emit(r.output, r.slept,
                      [NoStep EXCEPT !.op = "connect", !.book = o.book, !.handshake = o.ws,
                                     !.subscribed = IF o.sub1 = "err" \/ o.sub2 = "err"
                                                    THEN "err" ELSE o.sub2])
    /\ UNCHANGED <<limiter_vars, exchange, market, kind, pc, pending, orderbook,
                   already_fetching, prev_id, ref, sync, decoded>>

\* limiter.rs http_request_with_limiter: fetch_orderbook is answered with status 429 and
\* std::process::exit(1) ends the process
HlFetchExit ==
    /\ exchange = "Hyperliquid" /\ kind = "market"
    /\ state = "Disconnected" /\ pc = "loop"
    /\ pc' = "exited"
    /\ Emit(<<>>, 0, [NoStep EXCEPT !.op = "exit"])
    /\ UNCHANGED <<limiter_vars, exchange, market, kind, state, pending, orderbook, trades_buffer,
                   already_fetching, prev_id, ref, sync, decoded>>

HlTrade(hl_trade) ==
    [time |-> hl_trade.time,
     is_sell |-> (IF hl_trade.is_sell THEN "A" ELSE "B") = "A",
     price |-> round_to_min_tick(from_f32(hl_trade.price), ticker_info.min_ticksize),
     qty |-> IF size_in_quote_ccy THEN RoundQtyPrice(hl_trade.qty, hl_trade.price)
             ELSE hl_trade.qty]

HlReadTrade ==
    /\ exchange = "Hyperliquid" /\ kind = "market"
    /\ state = "Connected"
    /\ \E k \in 1..(MaxTrades - Len(decoded)) :
          LET batch == TradeBatch(Len(decoded), k)
              trades == [i \in 1..k |-> HlTrade(batch[i])]
          IN  /\ trades_buffer' = trades_buffer \o trades
              /\ decoded' = decoded \o trades
    /\ Emit(<<>>, 0, [NoStep EXCEPT !.op = "trade"])
    /\ UNCHANGED <<limiter_vars, exchange, market, kind, state, pc, pending, orderbook, already_fetching,
                   prev_id, ref, sync>>

\* l2Book frames: levels[0], levels[1] and the book's time
HlDepths == { [time |-> t, bids |-> b.bids, asks |-> b.asks] : t \in Ids, b \in StreamBooks }

\* StreamData::Depth arm: every l2Book frame is a snapshot
HlDepthResult(depth, ob, buf) ==
    LET q(level) == IF size_in_quote_ccy THEN RoundQtyPrice(level.qty, level.price)
                    ELSE level.qty
        depth_payload == [last_update_id |-> depth.time, time |-> depth.time,
                          bids |-> MapOrders(depth.bids, q),
                          asks |-> MapOrders(depth.asks, q)]
        nb == update(ob, [tag |-> "Snapshot", payload |-> depth_payload],
                     ticker_info.min_ticksize)
        t == mem_take(buf)
    IN  [orderbook |-> nb, trades_buffer |-> t.left,
         output |-> <<DepthReceived(nb.depth, t.taken)>>]

HlReadDepth ==
    /\ exchange = "Hyperliquid" /\ kind = "market"
    /\ state = "Connected"
    /\ \E d \in HlDepths :
          LET r == HlDepthResult(d, orderbook, trades_buffer)
          IN  /\ orderbook' = r.orderbook
              /\ trades_buffer' = r.trades_buffer
              /\ Emit(r.output, 0, [NoStep EXCEPT !.op = "depth"])
    /\ UNCHANGED <<limiter_vars, exchange, market, kind, state, pc, pending, already_fetching, prev_id,
                   ref, sync, decoded>>

\* connect_kline_stream, State::Disconnected arm: a failed subscription write only
\* leaves the loop over the streams
HlKlineConnectResult(ws, wr) ==
    IF ws = "ok"
    THEN [state |-> "Connected", slept |-> 0, output |-> <<Connected>>]
    ELSE [state |-> "Disconnected", slept |-> BackoffSecs,
          output |-> <<Disconnected("Failed to connect to websocket")>>]

HlKlineConnect ==
    /\ exchange = "Hyperliquid" /\ kind = "kline"
    /\ state = "Disconnected"
    /\ \E o \in SubscribeOutcomes :
          LET r == HlKlineConnectResult(o.ws, o.wr)
          IN  /\ state' = r.state
              /\ Emit(r.output, r.slept,
                      [NoStep EXCEPT !.op = "connect", !.handshake = o.ws,
                                     !.subscribed = o.wr])
    /\ UNCHANGED <<limiter_vars, exchange, market, kind, pc, pending, orderbook, trades_buffer,
                   already_fetching, prev_id, ref, sync, decoded>>

HlReadKline ==
    /\ exchange = "Hyperliquid" /\ kind = "kline"
    /\ state = "Connected"
    /\ \E matched \in BOOLEAN : Emit(KlineEvents(matched), 0, [NoStep EXCEPT !.op = "kline"])
    /\ UNCHANGED <<limiter_vars, exchange, market, kind, state, pc, pending, orderbook, trades_buffer,
                   already_fetching, prev_id, ref, sync, decoded>>

HlReadClose ==
    /\ exchange = "Hyperliquid"
    /\ state = "Connected"
    /\ LET r == OnClose("WebSocket closed")
       IN  /\ state' = r.state
           /\ Emit(r.output, 0, [NoStep EXCEPT !.op = "close", !.trigger = "close"])
    /\ UNCHANGED <<limiter_vars, exchange, market, kind, pc, pending, orderbook, trades_buffer,
                   already_fetching, prev_id, ref, sync, decoded>>

HlReadError ==
    /\ exchange = "Hyperliquid"
    /\ state = "Connected"
    /\ LET r == OnReadError("WebSocket error")
       IN  /\ state' = r.state
           /\ Emit(r.output, 0, [NoStep EXCEPT !.op = "error", !.trigger = "error"])
    /\ UNCHANGED <<limiter_vars, exchange, market, kind, pc, pending, orderbook, trades_buffer,
                   already_fetching, prev_id, ref, sync, decoded>>

\* a frame that does not decode, a Ping (answered with a Pong) or any other opcode
HlReadIgnored ==
    /\ exchange = "Hyperliquid"
    /\ state = "Connected"
    /\ LET r == FrameSkipped(state, orderbook, trades_buffer, prev_id)
       IN  /\ state' = r.state
           /\ orderbook' = r.orderbook
           /\ trades_buffer' = r.trades_buffer
           /\ prev_id' = r.prev_id
           /\ Emit(r.output, 0, [NoStep EXCEPT !.op = "ignored"])
    /\ UNCHANGED <<limiter_vars, exchange, market, kind, pc, pending, already_fetching, ref, sync, decoded>>

(***************************************************************************)
(* limiter.rs: the two buckets                                             *)
(* A Duration and an Instant are whole numbers of ticks; Duration::as_secs *)
(* drops the half second.                                                  *)
(***************************************************************************)
TicksPerSec == 2      \* a tick is the Duration::from_millis(500) of prepare_with_header_data

Limit == 3            \* a venue's declared limit, before its safety margin
WindowSecs == 2       \* a venue's window (REFILL_RATE), in seconds
MaxWeight == 2        \* request weights range over 1..MaxWeight
MaxTime == 8          \* the clock runs from 0 to MaxTime ticks
MaxCalls == 11        \* prepare calls counted in one wall-clock window
NumTasks == 2         \* tasks that share one limiter

Weights == 1..MaxWeight

as_secs(d) == d \div TicksPerSec

from_secs(n) == n * TicksPerSec

from_millis_500 == TicksPerSec \div 2

saturating_sub(a, b) == IF a > b THEN a - b ELSE 0

FixedWindowBucket_new(max_tokens, refill_rate, t) ==
    [type |-> "FixedWindowBucket", max_tokens |-> max_tokens, available_tokens |-> max_tokens,
     last_refill |-> t, refill_rate |-> refill_rate]

refill(b, t) ==
    LET period_seconds == as_secs(b.refill_rate)
        seconds_in_current_period == as_secs(t) % period_seconds
        elapsed == t - b.last_refill
    IN  IF elapsed >= b.refill_rate \/ seconds_in_current_period < 1
        THEN [b EXCEPT !.available_tokens = b.max_tokens, !.last_refill = t]
        ELSE b

calculate_wait_time(b, tokens, t) ==
    LET r == refill(b, t)
    IN  IF r.available_tokens >= tokens
        THEN [bucket |-> [r EXCEPT !.available_tokens = @ - tokens], wait |-> NoneOpt]
        ELSE [bucket |-> r, wait |-> Some(saturating_sub(r.refill_rate, t - r.last_refill))]

consume_tokens(b, tokens, t) ==
    LET r == refill(b, t)
    IN  [r EXCEPT !.available_tokens = @ - Min(tokens, @)]

DynamicBucket_new(max_weight, refill_rate, t) ==
    [type |-> "DynamicBucket", max_weight |-> max_weight, current_used_weight |-> 0,
     last_updated |-> t, refill_rate |-> refill_rate,
     fallback_bucket |-> FixedWindowBucket_new(max_weight, refill_rate, t)]

update_weight(d, new_weight, t) ==
    IF new_weight > 0
    THEN [d EXCEPT !.current_used_weight = new_weight, !.last_updated = t]
    ELSE d

\* variant of the header rule below that lets a request through while the fallback
\* bucket still holds tokens for it
prepare_with_header_or_tokens(d, weight, t) ==
    LET available == saturating_sub(d.max_weight, d.current_used_weight)
        period_seconds == as_secs(d.refill_rate)
        seconds_in_period == as_secs(t) % period_seconds
        wait_time == from_secs(period_seconds - seconds_in_period) + from_millis_500
    IN  IF available >= weight \/ d.fallback_bucket.available_tokens >= weight
        THEN [bucket |-> d, wait |-> NoneOpt, reason |-> None, rule |-> "header"]
        ELSE [bucket |-> d, wait |-> Some(wait_time), reason |-> "HeaderRate",
              rule |-> "header"]

\* the results carry the rule that decided; the code returns a reason only with a wait
prepare_with_header_data(d, weight, t) ==
    LET available == saturating_sub(d.max_weight, d.current_used_weight)
        period_seconds == as_secs(d.refill_rate)
        seconds_in_period == as_secs(t) % period_seconds
        wait_time == from_secs(period_seconds - seconds_in_period) + from_millis_500
    IN  IF available >= weight
        THEN [bucket |-> d, wait |-> NoneOpt, reason |-> None, rule |-> "header"]
        ELSE [bucket |-> d, wait |-> Some(wait_time), reason |-> "HeaderRate",
              rule |-> "header"]

prepare_with_fallback(d, weight, t) ==
    LET r == calculate_wait_time(d.fallback_bucket, weight, t)
    IN  [bucket |-> [d EXCEPT !.fallback_bucket = r.bucket], wait |-> r.wait,
         reason |-> IF r.wait = NoneOpt THEN None ELSE "FixedWindowRate",
         rule |-> "fallback"]

\* variant of prepare_request below that trusts a reported usage of any age
prepare_request_any_age(d, weight, t) ==
    IF d.current_used_weight > 0
    THEN prepare_with_header_data(d, weight, t)
    ELSE prepare_with_fallback(d, weight, t)

prepare_request(d, weight, t) ==
    LET elapsed == t - d.last_updated
    IN  IF elapsed <= d.refill_rate /\ d.current_used_weight > 0
        THEN prepare_with_header_data(d, weight, t)
        ELSE prepare_with_fallback(d, weight, t)

(***************************************************************************)
(* History of the limiter                                                  *)
(***************************************************************************)
NoCall ==
    [op |-> "none", task |-> 0, weight |-> 0, at |-> 0, wait |-> NoneOpt, rule |-> None,
     status |-> 0, before |-> None]

NoUsage ==
    [window |-> 0, admitted |-> 0, calls |-> 0, requested |-> 0, consumed |-> FALSE,
     last_report |-> NoneOpt]

\* the wall-clock window of length refill_rate that holds t
WindowOf(refill_rate, t) == as_secs(t) \div as_secs(refill_rate)

\* the accounting carried into the window that holds t
UsageAt(refill_rate, t) ==
    IF usage.window = WindowOf(refill_rate, t)
    THEN usage
    ELSE [NoUsage EXCEPT !.window = WindowOf(refill_rate, t), !.last_report = usage.last_report]

\* no Depth is shared with a consumer
SharedUnused ==
    /\ heap = <<>>
    /\ held = <<>>
    /\ size_calc_unit = SIZE_CALC_UNIT
    /\ size_local = NoneOpt
    /\ cache_files = <<>>

LimiterUnused ==
    /\ SharedUnused
    /\ now = 0
    /\ limiter = None
    /\ limiter_guard = NoneOpt
    /\ tasks = <<>>
    /\ call = NoCall
    /\ usage = NoUsage
    /\ result = <<>>

(***************************************************************************)
(* Stream tasks                                                            *)
(***************************************************************************)
Init ==
    /\ \E s \in Streams : exchange = s[1] /\ market = s[2] /\ kind = s[3]
    /\ state = "Disconnected"
    /\ pc = "loop"
    /\ pending = NoneOpt
    /\ orderbook = LocalDepthCacheDefault
    /\ trades_buffer = <<>>
    /\ already_fetching = FALSE
    /\ prev_id = 0
    /\ output = <<>>
    /\ step = NoStep
    /\ ref = NoRef
    /\ sync = NoSync
    /\ decoded = <<>>
    /\ delivered = <<>>
    /\ since_disc = -1
    /\ session = FALSE
    /\ LimiterUnused

Next ==
    \/ BinanceMarketConnect
    \/ BinanceReadTrade
    \/ BinanceReadDepth
    \/ BinanceResyncDone
    \/ BinanceFetchExit
    \/ BinanceReadClose
    \/ BinanceReadError
    \/ BinanceReadIgnored
    \/ BinanceKlineConnect
    \/ BinanceReadKline
    \/ OkexTryConnect
    \/ OkexReadTrade
    \/ OkexReadDepth
    \/ OkexReadKline
    \/ OkexReadClose
    \/ OkexReadError
    \/ OkexReadIgnored
    \/ HlMarketConnect
    \/ HlFetchExit
    \/ HlReadTrade
    \/ HlReadDepth
    \/ HlKlineConnect
    \/ HlReadKline
    \/ HlReadClose
    \/ HlReadError
    \/ HlReadIgnored

Spec == Init /\ [][Next]_vars

\* the loop of a stream task: a Disconnected task runs its next connection attempt
ConnectAttempt ==
    \/ BinanceMarketConnect
    \/ BinanceFetchExit
    \/ BinanceKlineConnect
    \/ OkexTryConnect
    \/ HlMarketConnect
    \/ HlFetchExit
    \/ HlKlineConnect

\* an attempt whose handshake, snapshot fetch and subscription writes all succeed
ConnectSucceeds == ConnectAttempt /\ state' = "Connected"

\* the Connected arm of the Binance market stream takes the next frame off the websocket
BinanceReadFrame ==
    \/ BinanceReadTrade
    \/ BinanceReadDepth
    \/ BinanceReadClose
    \/ BinanceReadError
    \/ BinanceReadIgnored


(***************************************************************************)
(* The order-book cache on its own: any mix of update calls                *)
(***************************************************************************)
\* DepthPayload values with at most MaxLevels levels in all
BookSides == {s \in OrderSeqs \X OrderSeqs : Len(s[1]) + Len(s[2]) <= MaxLevels}

DepthPayloads ==
    { [last_update_id |-> l, time |-> 10 * l, bids |-> s[1], asks |-> s[2]] :
        l \in Ids, s \in BookSides }

CacheSnapshot ==
    /\ \E snapshot \in DepthPayloads :
          /\ orderbook' = update(orderbook, [tag |-> "Snapshot", payload |-> snapshot],
                                 ticker_info.min_ticksize)
          /\ step' = [NoStep EXCEPT !.op = "snapshot"]
    /\ UNCHANGED <<limiter_vars, exchange, market, kind, state, pc, pending, trades_buffer, already_fetching,
                   prev_id, output, ref, sync, decoded, delivered, since_disc, session>>

CacheDiff ==
    /\ \E diff \in DepthPayloads :
          /\ orderbook' = update(orderbook, [tag |-> "Diff", payload |-> diff],
                                 ticker_info.min_ticksize)
          /\ step' = [NoStep EXCEPT !.op = "diff"]
    /\ UNCHANGED <<limiter_vars, exchange, market, kind, state, pc, pending, trades_buffer, already_fetching,
                   prev_id, output, ref, sync, decoded, delivered, since_disc, session>>

InitDepth ==
    /\ exchange = None /\ market = None /\ kind = None
    /\ state = "Disconnected"
    /\ pc = "loop"
    /\ pending = NoneOpt
    /\ orderbook = LocalDepthCacheDefault
    /\ trades_buffer = <<>>
    /\ already_fetching = FALSE
    /\ prev_id = 0
    /\ output = <<>>
    /\ step = NoStep
    /\ ref = NoRef
    /\ sync = NoSync
    /\ decoded = <<>>
    /\ delivered = <<>>
    /\ since_disc = -1
    /\ session = FALSE
    /\ LimiterUnused

NextDepth == CacheSnapshot \/ CacheDiff

SpecDepth == InitDepth /\ [][NextDepth]_vars

(***************************************************************************)
(* One LocalDepthCache::update call on a cache that holds a snapshot       *)
(***************************************************************************)
\* the caches a first snapshot leaves, and the cache before it
Caches ==
    {LocalDepthCacheDefault} \cup
    { update(LocalDepthCacheDefault, [tag |-> "Snapshot", payload |-> p],
             ticker_info.min_ticksize) :
        p \in {q \in DepthPayloads : q.last_update_id = 1} }

\* the payloads applied carry an identifier the cache does not hold yet
UpdatePayloads == {p \in DepthPayloads : p.last_update_id = MaxId}

Update ==
    /\ result = <<>>
    /\ \E tag \in {"Snapshot", "Diff"}, payload \in UpdatePayloads :
          /\ orderbook' = update(orderbook, [tag |-> tag, payload |-> payload],
                                 ticker_info.min_ticksize)
          /\ result' = [op |-> "update", tag |-> tag, payload |-> payload,
                        before |-> orderbook]
    /\ UNCHANGED <<shared_vars, now, limiter, limiter_guard, tasks, call, usage, exchange, pc,
                   market, kind,
                   state, pending, trades_buffer, already_fetching, prev_id,
                   output, step, ref, sync, decoded, delivered, since_disc, session>>

InitUpdate ==
    /\ exchange = None /\ market = None /\ kind = None
    /\ state = "Disconnected"
    /\ pc = "loop"
    /\ pending = NoneOpt
    /\ orderbook \in Caches
    /\ trades_buffer = <<>>
    /\ already_fetching = FALSE
    /\ prev_id = 0
    /\ output = <<>>
    /\ step = NoStep
    /\ ref = NoRef
    /\ sync = NoSync
    /\ decoded = <<>>
    /\ delivered = <<>>
    /\ since_disc = -1
    /\ session = FALSE
    /\ LimiterUnused

NextUpdate ==
    \/ Update

SpecUpdate == InitUpdate /\ [][NextUpdate]_vars

(***************************************************************************)
(* The cache and the Depth values it has handed out.  Here orderbook.depth *)
(* is the address of the cache's Arc<Depth>.                               *)
(***************************************************************************)
MaxHeld == 2      \* DepthReceived events not yet dropped by their consumers

\* Arc::new
Arc_new(h, value) ==
    LET ptr == CHOOSE a \in 1..(Cardinality(DOMAIN h) + 1) : a \notin DOMAIN h
    IN  [heap |-> [a \in DOMAIN h \cup {ptr} |->
                      IF a = ptr THEN [strong |-> 1, value |-> value] ELSE h[a]],
         ptr |-> ptr]

\* Arc::clone
Arc_clone(h, ptr) == [h EXCEPT ![ptr].strong = @ + 1]

\* Drop for Arc: the allocation goes with its last handle
Arc_drop(h, ptr) ==
    IF h[ptr].strong = 1 THEN [a \in DOMAIN h \ {ptr} |-> h[a]]
    ELSE [h EXCEPT ![ptr].strong = @ - 1]

make_mut_in_place(h, ptr) == [heap |-> h, ptr |-> ptr]

\* Arc::make_mut: the value itself when this handle is the only one, a new allocation
\* holding a clone of it otherwise
make_mut(h, ptr) ==
    IF h[ptr].strong = 1 THEN [heap |-> h, ptr |-> ptr]
    ELSE Arc_new(Arc_drop(h, ptr), h[ptr].value)

\* LocalDepthCache::update on a cache whose depth is behind an Arc
update_shared(h, cache, new_depth, min_ticksize) ==
    LET m == make_mut(h, cache.depth)
        depth == m.heap[m.ptr].value
        payload == new_depth.payload
    IN  [heap |-> [m.heap EXCEPT ![m.ptr].value =
                      IF new_depth.tag = "Snapshot"
                      THEN replace_all(depth, payload, min_ticksize)
                      ELSE DepthUpdateDiff(depth, payload, min_ticksize)],
         cache |-> [last_update_id |-> payload.last_update_id,
                    time |-> payload.time,
                    depth |-> m.ptr]]

\* payloads of at most one bid, at one price
SharedPayloads ==
    {p \in DepthPayloads :
        /\ p.last_update_id = 1 /\ p.asks = <<>> /\ Len(p.bids) <= 1
        /\ \A i \in DOMAIN p.bids : p.bids[i].price = 19}

\* a snapshot is applied: on connect, or by a resync
SharedSnapshot ==
    /\ \E snapshot \in SharedPayloads :
          LET u == update_shared(heap, orderbook, [tag |-> "Snapshot", payload |-> snapshot],
                                 ticker_info.min_ticksize)
          IN  /\ heap' = u.heap
              /\ orderbook' = u.cache
              /\ result' = [op |-> "snapshot", payload |-> snapshot]
    /\ UNCHANGED <<held, size_calc_unit, size_local, cache_files, now, limiter, limiter_guard, tasks, call,
                   usage, exchange, pc, market,
                   kind, state, pending, trades_buffer, already_fetching, prev_id, output,
                   step, ref, sync, decoded, delivered, since_disc, session>>

\* the depth arm: the diff is applied and a clone of the Arc is sent; the send waits
\* while the channel and its consumers hold MaxHeld events
SharedDiff ==
    /\ Len(held) < MaxHeld
    /\ \E diff \in SharedPayloads :
          LET u == update_shared(heap, orderbook, [tag |-> "Diff", payload |-> diff],
                                 ticker_info.min_ticksize)
          IN  /\ heap' = Arc_clone(u.heap, u.cache.depth)
              /\ orderbook' = u.cache
              /\ held' = Append(held, [depth |-> u.cache.depth,
                                       arrived |-> u.heap[u.cache.depth].value])
              /\ result' = [op |-> "diff", payload |-> diff]
    /\ UNCHANGED <<size_calc_unit, size_local, cache_files, now, limiter, limiter_guard, tasks, call,
                   usage, exchange, pc, market,
                   kind, state, pending, trades_buffer, already_fetching, prev_id, output,
                   step, ref, sync, decoded, delivered, since_disc, session>>

\* a consumer drops an event it holds
ConsumerDrops ==
    /\ \E i \in DOMAIN held :
          /\ heap' = Arc_drop(heap, held[i].depth)
          /\ held' = SubSeq(held, 1, i - 1) \o SubSeq(held, i + 1, Len(held))
    /\ result' = [op |-> "drop"]
    /\ UNCHANGED <<size_calc_unit, size_local, cache_files, now, limiter, limiter_guard, tasks, call,
                   usage, exchange, pc, market,
                   kind, state, pending, orderbook, trades_buffer, already_fetching, prev_id,
                   output, step, ref, sync, decoded, delivered, since_disc, session>>

\* LocalDepthCache::default()
InitShared ==
    /\ heap = Arc_new(<<>>, DepthDefault).heap
    /\ held = <<>>
    /\ size_calc_unit = SIZE_CALC_UNIT
    /\ size_local = NoneOpt
    /\ cache_files = <<>>
    /\ orderbook = [last_update_id |-> 0, time |-> 0, depth |-> Arc_new(<<>>, DepthDefault).ptr]
    /\ exchange = None /\ market = None /\ kind = None
    /\ state = "Disconnected"
    /\ pc = "loop"
    /\ pending = NoneOpt
    /\ trades_buffer = <<>>
    /\ already_fetching = FALSE
    /\ prev_id = 0
    /\ output = <<>>
    /\ step = NoStep
    /\ ref = NoRef
    /\ sync = NoSync
    /\ decoded = <<>>
    /\ delivered = <<>>
    /\ since_disc = -1
    /\ session = FALSE
    /\ now = 0
    /\ limiter = None
    /\ limiter_guard = NoneOpt
    /\ tasks = <<>>
    /\ call = NoCall
    /\ usage = NoUsage
    /\ result = <<>>

NextShared ==
    \/ SharedSnapshot
    \/ SharedDiff
    \/ ConsumerDrops

SpecShared == InitShared /\ [][NextShared]_vars

(***************************************************************************)
(* The size unit: a Binance spot market stream whose frames adjoin, while  *)
(* the preference is changed from outside                                  *)
(***************************************************************************)
SizeUnits == {"Base", "Quote"}

\* lib.rs volume_size_unit() == SizeUnit::Quote on the static as it is now
size_in_quote_ccy_now(unit) == unit = "Quote"

\* the unit a quantity is in when it was computed with this flag
UnitOf(in_quote) == IF in_quote THEN "Quote" ELSE "Base"

\* StreamData::Trade arm with the task's local flag; as history, the unit the quantity
\* is in and the preference at the time
TradeWith(de_trade, contract_size, in_quote, preferred) ==
    [time |-> de_trade.time,
     is_sell |-> de_trade.is_sell,
     price |-> round_to_min_tick(from_f32(de_trade.price), ticker_info.min_ticksize),
     qty |-> IF contract_size = NoneOpt
             THEN (IF in_quote THEN RoundQtyPrice(de_trade.qty, de_trade.price)
                   ELSE de_trade.qty)
             ELSE de_trade.qty * contract_size[1],
     unit |-> UnitOf(in_quote),
     preferred |-> preferred]

\* new_depth_cache, which reads the static itself
new_depth_cache_at(depth, contract_size, unit) ==
    [last_update_id |-> depth.final_id, time |-> depth.time,
     bids |-> [i \in DOMAIN depth.bids |->
                 [price |-> depth.bids[i].price,
                  qty |-> calc_qty(depth.bids[i].qty, depth.bids[i].price, contract_size,
                                   size_in_quote_ccy_now(unit))]],
     asks |-> [i \in DOMAIN depth.asks |->
                 [price |-> depth.asks[i].price,
                  qty |-> calc_qty(depth.asks[i].qty, depth.asks[i].price, contract_size,
                                   size_in_quote_ccy_now(unit))]]]

\* lib.rs set_preferred_currency
SetPreferredCurrency ==
    /\ \E v \in SizeUnits : size_calc_unit' = v
    /\ UNCHANGED <<heap, held, size_local, cache_files, now, limiter, limiter_guard, tasks, call, usage,
                   result, exchange, pc, market, kind, state, pending, orderbook,
                   trades_buffer, already_fetching, prev_id, output, step, ref, sync,
                   decoded, delivered, since_disc, session>>

\* connect_market_stream up to the loop: the local flag is read once
UnitStreamStart ==
    /\ size_local = NoneOpt
    /\ size_local' = Some(size_in_quote_ccy_now(size_calc_unit))
    /\ UNCHANGED <<heap, held, size_calc_unit, cache_files, now, limiter, limiter_guard, tasks, call, usage,
                   result, exchange, pc, market, kind, state, pending, orderbook,
                   trades_buffer, already_fetching, prev_id, output, step, ref, sync,
                   decoded, delivered, since_disc, session>>

\* StreamData::Trade arm
UnitReadTrade ==
    /\ size_local # NoneOpt
    /\ Len(decoded) < MaxTrades
    /\ LET trade == TradeWith(SonicTradeAt(Len(decoded) + 1), NoneOpt, size_local[1],
                              size_calc_unit)
       IN  /\ trades_buffer' = Append(trades_buffer, trade)
           /\ decoded' = Append(decoded, trade)
    /\ output' = <<>>
    /\ UNCHANGED <<heap, held, size_calc_unit, size_local, cache_files, now, limiter, limiter_guard, tasks,
                   call, usage, result, exchange, pc, market, kind, state, pending,
                   orderbook, already_fetching, prev_id, step, ref, sync, delivered,
                   since_disc, session>>

\* StreamData::Depth arm for a frame that adjoins the cache
UnitReadDepth ==
    /\ size_local # NoneOpt
    /\ orderbook.last_update_id < MaxId
    /\ \E b \in StreamBooks :
          LET de_depth == [tag |-> "Spot", time |-> 0,
                           first_id |-> orderbook.last_update_id + 1,
                           final_id |-> orderbook.last_update_id + 1,
                           prev_final_id |-> 0, bids |-> b.bids, asks |-> b.asks]
              payload == new_depth_cache_at(de_depth, NoneOpt, size_calc_unit)
              t == mem_take(trades_buffer)
          IN  /\ orderbook' = update(orderbook, [tag |-> "Diff", payload |-> payload],
                                     ticker_info.min_ticksize)
              /\ output' = <<[type |-> "DepthReceived", depth |-> orderbook'.depth,
                              trades |-> t.taken,
                              depth_unit |-> UnitOf(size_in_quote_ccy_now(size_calc_unit)),
                              preferred |-> size_calc_unit]>>
              /\ trades_buffer' = t.left
              /\ prev_id' = de_depth.final_id
    /\ UNCHANGED <<heap, held, size_calc_unit, size_local, cache_files, now, limiter, limiter_guard, tasks,
                   call, usage, result, exchange, pc, market, kind, state, pending,
                   already_fetching, step, ref, sync, decoded, delivered, since_disc, session>>

InitUnit ==
    /\ exchange = None /\ market = None /\ kind = None
    /\ state = "Disconnected"
    /\ pc = "loop"
    /\ pending = NoneOpt
    /\ orderbook = LocalDepthCacheDefault
    /\ trades_buffer = <<>>
    /\ already_fetching = FALSE
    /\ prev_id = 0
    /\ output = <<>>
    /\ step = NoStep
    /\ ref = NoRef
    /\ sync = NoSync
    /\ decoded = <<>>
    /\ delivered = <<>>
    /\ since_disc = -1
    /\ session = FALSE
    /\ LimiterUnused

NextUnit ==
    \/ SetPreferredCurrency
    \/ UnitStreamStart
    \/ UnitReadTrade
    \/ UnitReadDepth

SpecUnit == InitUnit /\ [][NextUnit]_vars

(***************************************************************************)
(* binance.rs get_hist_trades and the archive cache on disk                *)
(***************************************************************************)
MaxDates == 2     \* archive dates range over 1..MaxDates

Dates == 1..MaxDates

\* what a zip file can hold: no valid archive, an archive without trades, one with trades
Contents == {"corrupt", "empty", "trades"}

\* a file at the cache path: whether File::open succeeds on it, and what it holds
Files == [readable : BOOLEAN, content : Contents]

\* reqwest::get and resp.bytes(): a transport error, a status that is not a success, or a body
ArchiveResponses == {[kind |-> "error"], [kind |-> "status"]} \cup {[kind |-> "body", content |-> c] : c \in Contents}

\* std::fs::write: done, failed with nothing written, failed with part of the body written
Writes == {"ok", "failed", "failed_partial"}

get_hist_trades_always_fetched(file, dir_ok, resp, write) ==
    IF ~dir_ok THEN [file |-> file, downloads |-> 0, ret |-> "ParseError: create directories"]
    ELSE IF resp.kind = "error" THEN [file |-> file, downloads |-> 1, ret |-> "FetchError"]
    ELSE IF resp.kind = "status" THEN [file |-> file, downloads |-> 1, ret |-> "InvalidRequest"]
    ELSE IF write # "ok" THEN [file |-> file, downloads |-> 1, ret |-> "ParseError: write zip file"]
    ELSE [file |-> Some([readable |-> TRUE, content |-> resp.content]), downloads |-> 1,
          ret |-> IF resp.content = "corrupt" THEN "ParseError: unzip file" ELSE "Ok"]

\* the file afterwards, the download requests issued and what is returned
get_hist_trades(file, dir_ok, resp, write) ==
    IF ~dir_ok THEN [file |-> file, downloads |-> 0, ret |-> "ParseError: create directories"]
    ELSE
    LET cached == file # NoneOpt      \* std::fs::metadata(&base_zip_path).is_ok()
        fetched ==
            IF cached THEN [file |-> file, downloads |-> 0, ret |-> "go on"]
            ELSE IF resp.kind = "error"
                 THEN [file |-> file, downloads |-> 1, ret |-> "FetchError"]
            ELSE IF resp.kind = "status"
                 THEN [file |-> file, downloads |-> 1, ret |-> "InvalidRequest"]
            ELSE IF write = "failed"
                 THEN [file |-> file, downloads |-> 1, ret |-> "ParseError: write zip file"]
            ELSE IF write = "failed_partial"
                 THEN [file |-> Some([readable |-> TRUE, content |-> "corrupt"]),
                       downloads |-> 1, ret |-> "ParseError: write zip file"]
            ELSE [file |-> Some([readable |-> TRUE, content |-> resp.content]),
                  downloads |-> 1, ret |-> "go on"]
    IN  IF fetched.ret # "go on" THEN fetched
        ELSE [file |-> fetched.file, downloads |-> fetched.downloads,
              ret |-> IF ~fetched.file[1].readable THEN "ParseError: open compressed file"
                      ELSE IF fetched.file[1].content = "corrupt"
                           THEN "ParseError: unzip file"
                      ELSE "Ok"]

FileAt(date) == IF date \in DOMAIN cache_files THEN cache_files[date] ELSE NoneOpt

GetHistTrades ==
    /\ \E date \in Dates, dir_ok \in BOOLEAN, resp \in ArchiveResponses, write \in Writes :
          LET r == get_hist_trades(FileAt(date), dir_ok, resp, write)
          IN  /\ cache_files' = [d \in Dates |-> IF d = date THEN r.file ELSE FileAt(d)]
              /\ result' = [op |-> "get_hist_trades", date |-> date, before |-> FileAt(date),
                            dir_ok |-> dir_ok, downloads |-> r.downloads, ret |-> r.ret]
    /\ UNCHANGED <<heap, held, size_calc_unit, size_local, now, limiter, limiter_guard, tasks,
                   call, usage, exchange, pc, market, kind, state, pending, orderbook,
                   trades_buffer, already_fetching, prev_id, output, step, ref, sync,
                   decoded, delivered, since_disc, session>>

\* the file system from outside: a cache file is removed, replaced or has its mode changed
FileChanges ==
    /\ \E date \in Dates, file \in {NoneOpt} \cup {Some(f) : f \in Files} :
          cache_files' = [d \in Dates |-> IF d = date THEN file ELSE FileAt(d)]
    /\ result' = <<>>
    /\ UNCHANGED <<heap, held, size_calc_unit, size_local, now, limiter, limiter_guard, tasks,
                   call, usage, exchange, pc, market, kind, state, pending, orderbook,
                   trades_buffer, already_fetching, prev_id, output, step, ref, sync,
                   decoded, delivered, since_disc, session>>

InitHist ==
    /\ exchange = None /\ market = None /\ kind = None
    /\ state = "Disconnected"
    /\ pc = "loop"
    /\ pending = NoneOpt
    /\ orderbook = LocalDepthCacheDefault
    /\ trades_buffer = <<>>
    /\ already_fetching = FALSE
    /\ prev_id = 0
    /\ output = <<>>
    /\ step = NoStep
    /\ ref = NoRef
    /\ sync = NoSync
    /\ decoded = <<>>
    /\ delivered = <<>>
    /\ since_disc = -1
    /\ session = FALSE
    /\ LimiterUnused

\* fetch_intraday_trades: trades, or the error of the REST call
IntradayOutcomes == {"Ok", "FetchError"}

\* the error messages that are formatted with base_zip_path
names_path(ret) == ret = "ParseError: write zip file"

\* fetch_trades for a from_time of today (historical = FALSE) or of an earlier date: what
\* get_hist_trades returned, if it was called, and what the caller gets
fetch_trades(historical, file, dir_ok, resp, write, intraday) ==
    IF ~historical
    THEN [file |-> file, downloads |-> 0, hist |-> NoneOpt, ret |-> intraday]
    ELSE LET h == get_hist_trades(file, dir_ok, resp, write)
         IN  [file |-> h.file, downloads |-> h.downloads, hist |-> Some(h.ret),
              ret |-> IF h.ret = "Ok" THEN "Ok" ELSE intraday]

FetchTrades ==
    /\ \E historical \in BOOLEAN, intraday \in IntradayOutcomes :
       \E date \in IF historical THEN Dates ELSE {1},
          dir_ok \in IF historical THEN BOOLEAN ELSE {TRUE},
          resp \in IF historical THEN ArchiveResponses ELSE {[kind |-> "error"]},
          write \in IF historical THEN Writes ELSE {"ok"} :
          LET r == fetch_trades(historical, FileAt(date), dir_ok, resp, write, intraday)
          IN  /\ cache_files' = [d \in Dates |-> IF d = date THEN r.file ELSE FileAt(d)]
              /\ result' = [op |-> "fetch_trades", date |-> date, before |-> FileAt(date),
                            dir_ok |-> dir_ok, downloads |-> r.downloads, hist |-> r.hist,
                            ret |-> r.ret]
    /\ UNCHANGED <<heap, held, size_calc_unit, size_local, now, limiter, limiter_guard, tasks,
                   call, usage, exchange, pc, market, kind, state, pending, orderbook,
                   trades_buffer, already_fetching, prev_id, output, step, ref, sync,
                   decoded, delivered, since_disc, session>>

NextHist ==
    \/ GetHistTrades
    \/ FetchTrades
    \/ FileChanges

SpecHist == InitHist /\ [][NextHist]_vars

(***************************************************************************)
(* The buckets on their own: any mix of calls as the clock runs            *)
(***************************************************************************)
stream_vars == <<market, kind, state, pending, orderbook, trades_buffer, already_fetching,
                 prev_id, output, step, ref, sync, decoded, delivered, since_disc, session,
                 result,
                 shared_vars>>

StreamUnused ==
    /\ SharedUnused
    /\ market = None /\ kind = None
    /\ state = "Disconnected"
    /\ pending = NoneOpt
    /\ orderbook = LocalDepthCacheDefault
    /\ trades_buffer = <<>>
    /\ already_fetching = FALSE
    /\ prev_id = 0
    /\ output = <<>>
    /\ step = NoStep
    /\ ref = NoRef
    /\ sync = NoSync
    /\ decoded = <<>>
    /\ delivered = <<>>
    /\ since_disc = -1
    /\ session = FALSE

\* capacity and window, in seconds, of the buckets: the bounds, and 10 tokens per minute
BucketConfigs == {<<Limit, WindowSecs>>, <<10, 60>>}

\* a bucket is built at any point of the first seconds of a window
StartTimes == 0..TicksPerSec

Tick ==
    /\ now < MaxTime
    /\ pc # "exited"
    /\ now' = now + 1
    /\ call' = NoCall
    /\ UNCHANGED <<limiter, limiter_guard, tasks, usage, exchange, pc, stream_vars>>

CalculateWaitTime ==
    /\ limiter.type = "FixedWindowBucket"
    /\ LET u == UsageAt(limiter.refill_rate, now)
       IN  /\ u.calls < MaxCalls
           /\ \E tokens \in Weights :
                 LET r == calculate_wait_time(limiter, tokens, now)
                 IN  /\ limiter' = r.bucket
                     /\ call' = [NoCall EXCEPT !.op = "calculate_wait_time", !.weight = tokens,
                                               !.at = now, !.wait = r.wait, !.before = limiter]
                     /\ usage' = [u EXCEPT !.calls = @ + 1, !.requested = @ + tokens,
                                           !.admitted = IF r.wait = NoneOpt THEN @ + tokens
                                                        ELSE @]
    /\ UNCHANGED <<now, limiter_guard, tasks, exchange, pc, stream_vars>>

ConsumeTokens ==
    /\ limiter.type = "FixedWindowBucket"
    /\ \E tokens \in Weights :
          /\ limiter' = consume_tokens(limiter, tokens, now)
          /\ call' = [NoCall EXCEPT !.op = "consume_tokens", !.weight = tokens, !.at = now,
                                    !.before = limiter]
    /\ usage' = [UsageAt(limiter.refill_rate, now) EXCEPT !.consumed = TRUE]
    /\ UNCHANGED <<now, limiter_guard, tasks, exchange, pc, stream_vars>>

UpdateWeight ==
    /\ limiter.type = "DynamicBucket"
    /\ \E new_weight \in 0..(limiter.max_weight + 1) :
          /\ limiter' = update_weight(limiter, new_weight, now)
          /\ call' = [NoCall EXCEPT !.op = "update_weight", !.weight = new_weight, !.at = now,
                                    !.before = limiter]
          /\ usage' = [UsageAt(limiter.refill_rate, now) EXCEPT
                          !.last_report = IF new_weight > 0
                                          THEN Some([at |-> now, used |-> new_weight])
                                          ELSE @]
    /\ UNCHANGED <<now, limiter_guard, tasks, exchange, pc, stream_vars>>

PrepareRequest ==
    /\ limiter.type = "DynamicBucket"
    /\ \E weight \in Weights :
          LET r == prepare_request(limiter, weight, now)
          IN  /\ limiter' = r.bucket
              /\ call' = [NoCall EXCEPT !.op = "prepare_request", !.weight = weight,
                                        !.at = now, !.wait = r.wait, !.rule = r.rule,
                                        !.before = limiter]
    /\ usage' = UsageAt(limiter.refill_rate, now)
    /\ UNCHANGED <<now, limiter_guard, tasks, exchange, pc, stream_vars>>

InitBucket ==
    /\ exchange = None
    /\ pc = "loop"
    /\ StreamUnused
    /\ now \in StartTimes
    /\ \/ \E c \in BucketConfigs :
             limiter = FixedWindowBucket_new(c[1], from_secs(c[2]), now)
       \/ limiter = DynamicBucket_new(Limit, from_secs(WindowSecs), now)
    /\ limiter_guard = NoneOpt
    /\ tasks = <<>>
    /\ call = NoCall
    /\ usage = [NoUsage EXCEPT !.window = WindowOf(limiter.refill_rate, now)]
    /\ result = <<>>

NextBucket ==
    \/ Tick
    \/ CalculateWaitTime
    \/ ConsumeTokens
    \/ UpdateWeight
    \/ PrepareRequest

SpecBucket == InitBucket /\ [][NextBucket]_vars

(***************************************************************************)
(* The venue limiters and http_request_with_limiter                        *)
(***************************************************************************)
\* LIMITER_BUFFER_PCT, in percent: 0.03 for Binance, 0.05 for OKX and Hyperliquid
LIMITER_BUFFER_PCT(venue) == IF venue = "Binance" THEN 3 ELSE 5

\* (limit as f32 * (1.0 - LIMITER_BUFFER_PCT)) as usize
effective_limit(venue, limit) == (limit * (100 - LIMITER_BUFFER_PCT(venue))) \div 100

BinanceLimiter_new(limit, refill_rate, t) ==
    [type |-> "BinanceLimiter",
     bucket |-> DynamicBucket_new(effective_limit("Binance", limit), refill_rate, t)]

OkexLimiter_new(limit, refill_rate, t) ==
    [type |-> "OkexLimiter",
     bucket |-> FixedWindowBucket_new(effective_limit("Okex", limit), refill_rate, t)]

HyperliquidLimiter_new(limit, refill_rate, t) ==
    [type |-> "HyperliquidLimiter",
     bucket |-> FixedWindowBucket_new(effective_limit("Hyperliquid", limit), refill_rate, t)]

\* RateLimiter::prepare_request of the three venues
RateLimiter_prepare_request(l, weight, t) ==
    IF l.type = "BinanceLimiter"
    THEN LET r == prepare_request(l.bucket, weight, t)
         IN  [limiter |-> [l EXCEPT !.bucket = r.bucket], wait |-> r.wait]
    ELSE LET r == calculate_wait_time(l.bucket, weight, t)
         IN  [limiter |-> [l EXCEPT !.bucket = r.bucket], wait |-> r.wait]

\* RateLimiter::update_from_response; a response is its status and, where the venue sends
\* the header x-mbx-used-weight-1m, the weight it reports
RateLimiter_update_from_response(l, response, weight, t) ==
    IF l.type = "BinanceLimiter"
    THEN IF response.used_weight # NoneOpt
         THEN [l EXCEPT !.bucket = update_weight(l.bucket, response.used_weight[1], t)]
         ELSE l
    ELSE [l EXCEPT !.bucket = consume_tokens(l.bucket, weight, t)]

RateLimiter_should_exit_on_response(l, response) ==
    IF l.type = "BinanceLimiter"
    THEN response.status = 429 \/ response.status = 418
    ELSE response.status = 429

TaskIds == 1..NumTasks

\* a task outside any request
IdleTask == [pc |-> "idle", weight |-> 0, prepared |-> NoneOpt]

Statuses == {200, 418, 429}

Responses ==
    IF limiter.type = "BinanceLimiter"
    THEN [status : Statuses,
          used_weight : {NoneOpt} \cup {Some(u) : u \in 0..(limiter.bucket.max_weight + 1)}]
    ELSE [status : Statuses, used_weight : {NoneOpt}]

\* http_request_with_limiter up to its first suspension after the lock is taken: the
\* guard is bound, prepare_request runs, and the task is in sleep or in send
Request(t) ==
    /\ pc # "exited"
    /\ tasks[t].pc = "idle"
    /\ limiter_guard = NoneOpt
    /\ \E weight \in Weights :
          LET r == RateLimiter_prepare_request(limiter, weight, now)
          IN  /\ limiter' = r.limiter
              /\ tasks' = [tasks EXCEPT ![t] =
                              [pc |-> IF r.wait = NoneOpt THEN "sending" ELSE "sleeping",
                               weight |-> weight,
                               prepared |-> Some([at |-> now, wait |-> r.wait])]]
              /\ call' = [NoCall EXCEPT !.op = "prepare_request", !.task = t,
                                        !.weight = weight, !.at = now, !.wait = r.wait,
                                        !.before = limiter]
    /\ limiter_guard' = Some(t)
    /\ UNCHANGED <<now, usage, exchange, pc, stream_vars>>

\* tokio::time::sleep(wait_time) is over
Wake(t) ==
    /\ pc # "exited"
    /\ tasks[t].pc = "sleeping"
    /\ now >= tasks[t].prepared[1].at + tasks[t].prepared[1].wait[1]
    /\ tasks' = [tasks EXCEPT ![t].pc = "sending"]
    /\ call' = [NoCall EXCEPT !.op = "send", !.task = t, !.at = now]
    /\ UNCHANGED <<now, limiter, limiter_guard, usage, exchange, pc, stream_vars>>

\* send() returns Err: `?` leaves the function and drops the guard
SendFails(t) ==
    /\ pc # "exited"
    /\ tasks[t].pc = "sending"
    /\ tasks' = [tasks EXCEPT ![t] = IdleTask]
    /\ limiter_guard' = NoneOpt
    /\ call' = [NoCall EXCEPT !.op = "send_failed", !.task = t, !.at = now]
    /\ UNCHANGED <<now, limiter, usage, exchange, pc, stream_vars>>

\* send() returns a response: exit the process, or update the limiter and read the body
Response(t) ==
    /\ pc # "exited"
    /\ tasks[t].pc = "sending"
    /\ \E response \in Responses :
          /\ call' = [NoCall EXCEPT !.op = "response", !.task = t, !.at = now,
                                    !.weight = tasks[t].weight,
                                    !.status = response.status, !.before = limiter]
          /\ IF RateLimiter_should_exit_on_response(limiter, response)
             THEN /\ pc' = "exited"
                  /\ UNCHANGED <<limiter, tasks>>
             ELSE /\ limiter' = RateLimiter_update_from_response(limiter, response,
                                                                 tasks[t].weight, now)
                  /\ tasks' = [tasks EXCEPT ![t].pc = "reading"]
                  /\ pc' = pc
    /\ UNCHANGED <<now, limiter_guard, usage, exchange, stream_vars>>

\* response.text() resolves: the function returns and drops the guard
BodyRead(t) ==
    /\ pc # "exited"
    /\ tasks[t].pc = "reading"
    /\ tasks' = [tasks EXCEPT ![t] = IdleTask]
    /\ limiter_guard' = NoneOpt
    /\ call' = [NoCall EXCEPT !.op = "return", !.task = t, !.at = now]
    /\ UNCHANGED <<now, limiter, usage, exchange, pc, stream_vars>>

\* fetch_ticksize of Binance and OKX: HTTP_CLIENT.get(url).send() with no limiter
FetchTicksize(t) ==
    /\ pc # "exited"
    /\ exchange \in {"Binance", "Okex"}
    /\ tasks[t].pc = "idle"
    /\ tasks' = [tasks EXCEPT ![t].pc = "sending_ticksize"]
    /\ call' = [NoCall EXCEPT !.op = "send", !.task = t, !.at = now]
    /\ UNCHANGED <<now, limiter, limiter_guard, usage, exchange, pc, stream_vars>>

\* the response to fetch_ticksize, of any status, or its error
TicksizeDone(t) ==
    /\ pc # "exited"
    /\ tasks[t].pc = "sending_ticksize"
    /\ call' = [NoCall EXCEPT !.op = "ticksize_done", !.task = t, !.at = now]
    /\ tasks' = [tasks EXCEPT ![t] = IdleTask]
    /\ UNCHANGED <<now, limiter, limiter_guard, usage, exchange, pc, stream_vars>>

InitLimiter ==
    /\ exchange \in {"Binance", "Okex", "Hyperliquid"}
    /\ pc = "loop"
    /\ StreamUnused
    /\ now \in StartTimes
    /\ limiter = CASE exchange = "Binance" ->
                        BinanceLimiter_new(Limit, from_secs(WindowSecs), now)
                   [] exchange = "Okex" ->
                        OkexLimiter_new(Limit, from_secs(WindowSecs), now)
                   [] OTHER ->
                        HyperliquidLimiter_new(Limit, from_secs(WindowSecs), now)
    /\ limiter_guard = NoneOpt
    /\ tasks = [t \in TaskIds |-> IdleTask]
    /\ call = NoCall
    /\ usage = NoUsage
    /\ result = <<>>

NextLimiter ==
    \/ Tick
    \/ \E t \in TaskIds : Request(t)
    \/ \E t \in TaskIds : Wake(t)
    \/ \E t \in TaskIds : SendFails(t)
    \/ \E t \in TaskIds : Response(t)
    \/ \E t \in TaskIds : BodyRead(t)
    \/ \E t \in TaskIds : FetchTicksize(t)
    \/ \E t \in TaskIds : TicksizeDone(t)

SpecLimiter == InitLimiter /\ [][NextLimiter]_vars

(***************************************************************************)
(* lib.rs: Ticker                                                          *)
(* A &str is the sequence of its bytes.                                    *)
(***************************************************************************)
MAX_LEN == 28

MaxSymbolLen == 1     \* bytes in a symbol or a display symbol

\* 'A' and 'B': graphic ASCII, neither ':' nor '|'
SymbolBytes == {65, 66}

RECURSIVE StrsOfLen(_)
StrsOfLen(n) ==
    IF n = 0 THEN {<<>>}
    ELSE {Append(w, b) : w \in StrsOfLen(n - 1), b \in SymbolBytes}

\* the strings both asserts of new_with_display accept
Symbols == UNION {StrsOfLen(n) : n \in 1..MaxSymbolLen}

Exchanges == {"BinanceSpot", "HyperliquidSpot"}

\* [0u8; MAX_LEN] with the string copied to its front
copy_from_slice(str) == [i \in 1..MAX_LEN |-> IF i <= Len(str) THEN str[i] ELSE 0]

Ticker_new_with_display(ticker, exch, display_symbol) ==
    [bytes |-> copy_from_slice(ticker),
     exchange |-> exch,
     display_bytes |-> IF display_symbol # NoneOpt THEN copy_from_slice(display_symbol[1])
                       ELSE copy_from_slice(<<>>),
     has_display_symbol |-> display_symbol # NoneOpt]

Ticker_new(ticker, exch) == Ticker_new_with_display(ticker, exch, NoneOpt)

\* Ticker::as_str: the bytes before the first 0
as_str(t) ==
    LET zeros == {i \in 1..MAX_LEN : t.bytes[i] = 0}
        end == IF zeros = {} THEN MAX_LEN
               ELSE (CHOOSE i \in zeros : \A j \in zeros : i <= j) - 1
    IN  [i \in 1..end |-> t.bytes[i]]

\* #[derive(PartialEq, Eq)]: every field is compared
Ticker_eq(a, b) ==
    /\ a.bytes = b.bytes
    /\ a.exchange = b.exchange
    /\ a.display_bytes = b.display_bytes
    /\ a.has_display_symbol = b.has_display_symbol

\* #[derive(Hash)]: what the value feeds to the Hasher, field by field
Ticker_hash(t) == <<t.bytes, t.exchange, t.display_bytes, t.has_display_symbol>>

\* the last two values built, to be compared
KeepLast(seq) == IF Len(seq) > 2 THEN Tail(seq) ELSE seq

TickerNew ==
    /\ \E ticker \in Symbols, e \in Exchanges :
          result' = KeepLast(Append(result, Ticker_new(ticker, e)))
    /\ UNCHANGED <<shared_vars, now, limiter, limiter_guard, tasks, call, usage, exchange, pc,
                   market, kind,
                   state, pending, orderbook, trades_buffer, already_fetching, prev_id,
                   output, step, ref, sync, decoded, delivered, since_disc, session>>

TickerNewWithDisplay ==
    /\ \E ticker \in Symbols, e \in Exchanges, display \in Symbols :
          result' = KeepLast(Append(result, Ticker_new_with_display(ticker, e, Some(display))))
    /\ UNCHANGED <<shared_vars, now, limiter, limiter_guard, tasks, call, usage, exchange, pc,
                   market, kind,
                   state, pending, orderbook, trades_buffer, already_fetching, prev_id,
                   output, step, ref, sync, decoded, delivered, since_disc, session>>

\* every variable of the stream tasks and of the limiter at rest
AllUnused ==
    /\ SharedUnused
    /\ exchange = None
    /\ pc = "loop"
    /\ market = None /\ kind = None
    /\ state = "Disconnected"
    /\ pending = NoneOpt
    /\ orderbook = LocalDepthCacheDefault
    /\ trades_buffer = <<>>
    /\ already_fetching = FALSE
    /\ prev_id = 0
    /\ output = <<>>
    /\ step = NoStep
    /\ ref = NoRef
    /\ sync = NoSync
    /\ decoded = <<>>
    /\ delivered = <<>>
    /\ since_disc = -1
    /\ session = FALSE
    /\ now = 0
    /\ limiter = None
    /\ limiter_guard = NoneOpt
    /\ tasks = <<>>
    /\ call = NoCall
    /\ usage = NoUsage

InitTicker ==
    /\ AllUnused
    /\ result = <<>>

NextTicker == TickerNew \/ TickerNewWithDisplay

SpecTicker == InitTicker /\ [][NextTicker]_vars

(***************************************************************************)
(* util.rs: Price rounding on a machine word                               *)
(* The i64 of Price::units is a two's-complement word of WordBits bits.    *)
(* An arithmetic overflow panics where the build checks overflow and wraps *)
(* where it does not; a call runs under either build.                      *)
(***************************************************************************)
WordBits == 5         \* width of the word that stands for i64
MaxStep == 4          \* PriceStep units range over 0..MaxStep

RECURSIVE Pow2(_)
Pow2(n) == IF n <= 0 THEN 1 ELSE 2 * Pow2(n - 1)

I64_MIN == -Pow2(WordBits - 1)

I64_MAX == Pow2(WordBits - 1) - 1

Words == I64_MIN..I64_MAX

PriceSteps == 0..MaxStep

\* a call returns <<value>>, or <<>> when it panicked
Panic == <<>>

\* the word a wrapping operation leaves
wrapping(x) == ((x - I64_MIN) % Pow2(WordBits)) + I64_MIN

\* the outcome of `+` or `*` whose exact value is x
Arith(x, overflow_checks) ==
    IF x \in Words THEN <<x>>
    ELSE IF overflow_checks THEN Panic ELSE <<wrapping(x)>>

floor_to_step(units, unit, overflow_checks) ==
    IF unit <= 1 THEN <<units>>
    ELSE Arith(div_euclid(units, unit) * unit, overflow_checks)

ceil_to_step(units, unit, overflow_checks) ==
    IF unit <= 1 THEN <<units>>
    ELSE LET added == IF units + (unit - 1) \in Words THEN units + (unit - 1)
                      ELSE IF units < 0 THEN I64_MIN ELSE I64_MAX
         IN  Arith(div_euclid(added, unit) * unit, overflow_checks)

round_to_side_step(units, is_sell_or_bid, unit, overflow_checks) ==
    IF is_sell_or_bid THEN floor_to_step(units, unit, overflow_checks)
    ELSE ceil_to_step(units, unit, overflow_checks)

RoundToSideStep ==
    /\ \E units \in Words, unit \in PriceSteps, is_sell_or_bid \in BOOLEAN,
          overflow_checks \in BOOLEAN :
          result' = [op |-> "round_to_side_step", units |-> units, step |-> unit,
                     is_sell_or_bid |-> is_sell_or_bid, overflow_checks |-> overflow_checks,
                     out |-> round_to_side_step(units, is_sell_or_bid, unit, overflow_checks)]
    /\ UNCHANGED <<shared_vars, now, limiter, limiter_guard, tasks, call, usage, exchange, pc,
                   market, kind,
                   state, pending, orderbook, trades_buffer, already_fetching, prev_id,
                   output, step, ref, sync, decoded, delivered, since_disc, session>>

\* Price::round_to_step: the sum and the product are plain i64 arithmetic
round_to_step(units, unit, overflow_checks) ==
    IF unit <= 1 THEN <<units>>
    ELSE LET half == unit \div 2
             sum == Arith(units + half, overflow_checks)
         IN  IF sum = Panic THEN Panic
             ELSE Arith(div_euclid(sum[1], unit) * unit, overflow_checks)

\* a price is rounded to a step, and what came out is rounded to the step again
RoundToStep ==
    /\ \E units \in Words, unit \in PriceSteps, overflow_checks \in BOOLEAN :
          LET out == round_to_step(units, unit, overflow_checks)
          IN  result' = [op |-> "round_to_step", units |-> units, step |-> unit,
                         overflow_checks |-> overflow_checks, out |-> out,
                         again |-> IF out = Panic THEN Panic
                                   ELSE round_to_step(out[1], unit, overflow_checks)]
    /\ UNCHANGED <<shared_vars, now, limiter, limiter_guard, tasks, call, usage, exchange, pc,
                   market, kind,
                   state, pending, orderbook, trades_buffer, already_fetching, prev_id,
                   output, step, ref, sync, decoded, delivered, since_disc, session>>

(***************************************************************************)
(* util.rs: Price::fmt_into                                                *)
(* The text is the sequence of its characters.  The prices formatted are   *)
(* far from the ends of the i64 range.                                     *)
(***************************************************************************)
MaxMantissa == 25     \* prices formatted are m and m * 10^7 units for |m| <= MaxMantissa

FmtUnits == {m * Pow10(e) : m \in -MaxMantissa..MaxMantissa, e \in {0, 7}}

\* Power10::power of the precisions 10^-8, 10^-7, 10^-1 and 1
FmtPowers == {-8, -7, -1, 0}

Digit(d) == <<"0", "1", "2", "3", "4", "5", "6", "7", "8", "9">>[d + 1]

\* write!(out, "{}", n)
RECURSIVE Decimal(_)
Decimal(n) == IF n < 10 THEN <<Digit(n)>> ELSE Append(Decimal(n \div 10), Digit(n % 10))

\* write!(out, "{:0width$}", n)
RECURSIVE ZeroPadded(_, _)
ZeroPadded(n, width) ==
    IF width <= 0 THEN (IF n = 0 THEN <<>> ELSE Decimal(n))
    ELSE Append(ZeroPadded(n \div 10, width - 1), Digit(n % 10))

\* the text, and beside it the locals it was written from
fmt_into(units, power) ==
    LET scale_u == PRICE_SCALE
        exp == PRICE_SCALE + power
        unit == Pow10(exp)
        u == units
        half == unit \div 2
        rounded_units == IF u >= 0 THEN div_euclid(u + half, unit) * unit
                         ELSE div_euclid(u - half, unit) * unit
        decimals == IF power < 0 THEN Min(-power, scale_u) ELSE 0
        abs_u == IF rounded_units < 0 THEN -rounded_units ELSE rounded_units
        scale_pow == Pow10(scale_u)
        int_part == abs_u \div scale_pow
        frac_div == Pow10(scale_u - decimals)
        frac_part == (abs_u % scale_pow) \div frac_div
    IN  [text |-> (IF rounded_units < 0 THEN <<"-">> ELSE <<>>)
                  \o Decimal(int_part)
                  \o (IF decimals = 0 THEN <<>>
                      ELSE <<".">> \o ZeroPadded(frac_part, decimals)),
         negative |-> rounded_units < 0,
         int_part |-> int_part,
         frac_part |-> IF decimals = 0 THEN 0 ELSE frac_part,
         decimals |-> decimals]

\* Price::to_string of a price and of its negation at one precision
FmtInto ==
    /\ \E units \in FmtUnits, power \in FmtPowers :
          result' = [op |-> "fmt_into", units |-> units, power |-> power,
                     out |-> fmt_into(units, power), mirror |-> fmt_into(-units, power)]
    /\ UNCHANGED <<shared_vars, now, limiter, limiter_guard, tasks, call, usage, exchange, pc,
                   market, kind,
                   state, pending, orderbook, trades_buffer, already_fetching, prev_id,
                   output, step, ref, sync, decoded, delivered, since_disc, session>>

InitPrice ==
    /\ AllUnused
    /\ result = <<>>

NextPrice ==
    \/ RoundToSideStep
    \/ RoundToStep
    \/ FmtInto

SpecPrice == InitPrice /\ [][NextPrice]_vars

(***************************************************************************)
(* util.rs, Price <-> f32.  An f32 is sign * m * 2^e with a mantissa of    *)
(* MantBits bits (24 in the build); every f32 operation returns the exact  *)
(* result rounded to the nearest such value, ties to even.  The scale      *)
(* 10^PRICE_SCALE = 5^PRICE_SCALE * 2^PRICE_SCALE is itself an f32.        *)
(***************************************************************************)
MantBits == 6

\* exponents of the inputs: from values below half an atomic unit up to
\* values whose unit count no longer fits the mantissa
FloatExps == -34 .. -3

RECURSIVE Pow5(_)
Pow5(n) == IF n <= 0 THEN 1 ELSE 5 * Pow5(n - 1)

RECURSIVE BitLen(_)
BitLen(n) == IF n <= 0 THEN 0 ELSE 1 + BitLen(n \div 2)

Magn(n) == IF n < 0 THEN -n ELSE n

\* the f32 nearest to (n + fraction) * 2^e for n >= 0; sticky tells that a
\* non-zero fraction was cut off below n's last bit
round_ties_even(n, e, sticky) ==
    LET d == BitLen(n) - MantBits
    IN IF d <= 0 THEN [m |-> n, e |-> e]
       ELSE LET q == n \div Pow2(d)
                r == n % Pow2(d)
                half == Pow2(d - 1)
                up == r > half \/ (r = half /\ (sticky \/ q % 2 = 1))
            IN [m |-> IF up THEN q + 1 ELSE q, e |-> e + d]

\* v * scale in f32
f32_mul_scale(v) ==
    LET y == round_ties_even(Magn(v.m) * Pow5(PRICE_SCALE), v.e + PRICE_SCALE, FALSE)
    IN [m |-> IF v.m < 0 THEN -y.m ELSE y.m, e |-> y.e]

\* f32::round (half away from zero) followed by `as i64`, exact for an
\* integral f32 inside the i64 range
f32_round_as_i64(y) ==
    LET a == Magn(y.m)
        u == IF y.e >= 0 THEN a * Pow2(y.e)
             ELSE (a + Pow2(-y.e - 1)) \div Pow2(-y.e)
    IN IF y.m < 0 THEN -u ELSE u

\* units as f32
i64_as_f32(u) ==
    LET y == round_ties_even(Magn(u), 0, FALSE)
    IN [m |-> IF u < 0 THEN -y.m ELSE y.m, e |-> y.e]

\* f / scale in f32: the mantissa is first shifted to MantBits bits so that
\* the quotient keeps two bits more than the result needs
f32_div_scale(f) ==
    IF f.m = 0 THEN [m |-> 0, e |-> 0]
    ELSE LET sh == MantBits - BitLen(Magn(f.m))
             n == Magn(f.m) * Pow2(sh) * Pow2(PRICE_SCALE + 13)
             q == n \div Pow5(PRICE_SCALE)
             y == round_ties_even(q, f.e - sh - PRICE_SCALE - (PRICE_SCALE + 13),
                                  n % Pow5(PRICE_SCALE) # 0)
         IN [m |-> IF f.m < 0 THEN -y.m ELSE y.m, e |-> y.e]

Price_from_f32_lossy(v) == f32_round_as_i64(f32_mul_scale(v))

Price_from_f32(v) == Price_from_f32_lossy(v)

Price_to_f32_lossy(units) == f32_div_scale(i64_as_f32(units))

Price_to_f32(units) == Price_to_f32_lossy(units)

\* |a - b| <= 10^-PRICE_SCALE, compared exactly
within_atomic_unit(a, b) ==
    LET ea == IF a.m = 0 THEN b.e ELSE a.e
        eb == IF b.m = 0 THEN a.e ELSE b.e
        lo == Min(ea, eb)
        D == Magn(a.m * Pow2(ea - lo) - b.m * Pow2(eb - lo))
    IN IF lo + PRICE_SCALE >= 0 THEN D = 0
       ELSE D * Pow5(PRICE_SCALE) <= Pow2(-(lo + PRICE_SCALE))

\* the normal f32 values of the modelled width, both signs
Floats ==
    {[m |-> s * m, e |-> e] : s \in {-1, 1}, m \in Pow2(MantBits - 1) .. (Pow2(MantBits) - 1),
                              e \in FloatExps}

FromF32 ==
    /\ result = <<>>
    /\ \E x \in Floats :
          result' = [op |-> "from_f32", x |-> x, units |-> Price_from_f32(x), back |-> NoneOpt]
    /\ UNCHANGED <<shared_vars, now, limiter, limiter_guard, tasks, call, usage, exchange, pc,
                   market, kind,
                   state, pending, orderbook, trades_buffer, already_fetching, prev_id,
                   output, step, ref, sync, decoded, delivered, since_disc, session>>

ToF32 ==
    /\ result # <<>>
    /\ result.op = "from_f32"
    /\ result' = [result EXCEPT !.op = "to_f32", !.back = Some(Price_to_f32(result.units))]
    /\ UNCHANGED <<shared_vars, now, limiter, limiter_guard, tasks, call, usage, exchange, pc,
                   market, kind,
                   state, pending, orderbook, trades_buffer, already_fetching, prev_id,
                   output, step, ref, sync, decoded, delivered, since_disc, session>>

InitFloat ==
    /\ AllUnused
    /\ result = <<>>

NextFloat ==
    \/ FromF32
    \/ ToF32

SpecFloat == InitFloat /\ [][NextFloat]_vars

(***************************************************************************)
(* binance.rs fetch_klines: the request it builds and the weight it asks   *)
(* the limiter for.  Times are u64 milliseconds.                           *)
(***************************************************************************)
MaxIntervalMs == 3

\* Timeframe::to_milliseconds of the timeframes tried
IntervalsMs == 2 .. MaxIntervalMs

\* whole intervals inside a range, at the edges of the limit table
IntervalCounts == {0, 1, 2, 3, 100, 101, 500, 501, 1000, 1001}

\* start times late enough for `start - interval_ms * 5`, as every real timestamp is
KlineStarts == {5 * MaxIntervalMs + k : k \in 0 .. 1}

KlineRanges ==
    {NoneOpt} \cup
    {Some([start |-> st, end |-> st + span]) :
        st \in KlineStarts,
        span \in {n * i + f : n \in IntervalCounts, i \in IntervalsMs, f \in 0 .. 1}}

\* `match limit_param` of the perpetual markets; Panic is the `_` arm
kline_weight(limit_param) ==
    CASE limit_param \in 1 .. 100 -> Some(1)
      [] limit_param \in 101 .. 500 -> Some(2)
      [] limit_param \in 501 .. 1000 -> Some(5)
      [] limit_param \in 1001 .. 1500 -> Some(10)
      [] OTHER -> Panic

\* the query parameters pushed onto the url and the value of limit_param: inside the
\* `if num_intervals < 3` block a second num_intervals shadows the first, which is the
\* one the block's last expression returns
kline_limit_param(interval_ms, range) ==
    IF range = NoneOpt
    THEN [query |-> [startTime |-> NoneOpt, endTime |-> NoneOpt, limit |-> 400],
          limit_param |-> 400]
    ELSE LET start == range[1].start
             end == range[1].end
             num_intervals == Min((end - start) \div interval_ms, 1000)
         IN  IF num_intervals < 3
             THEN LET new_start == start - interval_ms * 5
                      new_end == end + interval_ms * 5
                      inner == Min((new_end - new_start) \div interval_ms, 1000)
                  IN  [query |-> [startTime |-> Some(new_start), endTime |-> Some(new_end),
                                  limit |-> inner],
                       limit_param |-> num_intervals]
             ELSE [query |-> [startTime |-> Some(start), endTime |-> Some(end),
                              limit |-> num_intervals],
                   limit_param |-> num_intervals]

\* fetch_klines up to the call of http_parse_with_limiter: the request is issued iff a
\* weight was selected
fetch_klines(market_type, interval_ms, range) ==
    LET l == kline_limit_param(interval_ms, range)
        weight == IF market_type = "Spot" THEN Some(2) ELSE kline_weight(l.limit_param)
    IN  [query |-> l.query, limit_param |-> l.limit_param, weight |-> weight,
         issued |-> weight # Panic]

FetchKlines ==
    /\ result = <<>>
    /\ \E market_type \in {"Spot", "LinearPerps", "InversePerps"}, interval_ms \in IntervalsMs,
          range \in KlineRanges :
          LET r == fetch_klines(market_type, interval_ms, range)
          IN  result' = [op |-> "fetch_klines", market_type |-> market_type,
                         interval_ms |-> interval_ms, range |-> range, query |-> r.query,
                         limit_param |-> r.limit_param, weight |-> r.weight,
                         issued |-> r.issued]
    /\ UNCHANGED <<shared_vars, now, limiter, limiter_guard, tasks, call, usage, exchange, pc,
                   market, kind,
                   state, pending, orderbook, trades_buffer, already_fetching, prev_id,
                   output, step, ref, sync, decoded, delivered, since_disc, session>>

\* the caller takes the klines or the error and calls again
KlinesReturned ==
    /\ result # <<>>
    /\ result.op = "fetch_klines"
    /\ result.issued
    /\ result' = <<>>
    /\ UNCHANGED <<shared_vars, now, limiter, limiter_guard, tasks, call, usage, exchange, pc,
                   market, kind,
                   state, pending, orderbook, trades_buffer, already_fetching, prev_id,
                   output, step, ref, sync, decoded, delivered, since_disc, session>>

InitKlines ==
    /\ AllUnused
    /\ result = <<>>

NextKlines ==
    \/ FetchKlines
    \/ KlinesReturned

SpecKlines == InitKlines /\ [][NextKlines]_vars

(***************************************************************************)
(* Properties                                                              *)
(***************************************************************************)
BinanceMarket == exchange = "Binance" /\ kind = "market"

DepthsOf(events) == {events[i].depth : i \in {j \in DOMAIN events : events[j].type = "DepthReceived"}}

NoZero(price_map) == \A p \in DOMAIN price_map : price_map[p] # 0

\* C1: in the Binance market stream, while the diffs received since a snapshot with
\* last_update_id L > 0 are contiguous, every DepthReceived carries the snapshot with
\* exactly the diffs of final_id > L folded in, in arrival order, and the cache holds
\* that same book once a diff has been folded.
C1_ContiguousDiffsFolded ==
    (BinanceMarket /\ ref.on) =>
        /\ \A depth \in DepthsOf(output) : depth = ref.cache.depth
        /\ ref.count > 0 =>
              /\ orderbook.depth = ref.cache.depth
              /\ orderbook.last_update_id = ref.last

\* C2: in the Binance market stream, once a diff that does not adjoin the applied
\* identifier has arrived, no diff is folded into the cache until the snapshot of the
\* resync has been applied.
C2_NoFoldBeforeResyncSnapshot ==
    (BinanceMarket /\ sync.need) => step.applied = NoneOpt

\* C3: a diff is folded into the LocalDepthCache only if first_id <= last_update_id + 1
\* <= final_id, and a perpetual diff after the first only if its prev_final_id is the
\* final_id of the last applied diff.
C3_DiffAppliedOnlyInRange ==
    step.applied # NoneOpt =>
        LET a == step.applied[1]
        IN  /\ a.first_id <= a.pre + 1
            /\ a.pre + 1 <= a.final_id
            /\ (exchange = "Binance" /\ market # "Spot" /\ ~a.first)
                  => a.prev_final_id = a.last_final

\* C4: when the REST fetch of a resync fails, the Binance market stream emits
\* Event::Disconnected, is in State::Disconnected, folds no diff and emits no
\* DepthReceived.
C4_FailedResyncTearsDown ==
    (BinanceMarket /\ step.op = "resync" /\ step.resync \in {"err", "chan"}) =>
        /\ state = "Disconnected"
        /\ Count(output, "Disconnected") = 1
        /\ step.applied = NoneOpt
        /\ ~Has(output, "DepthReceived")

\* C5: after any sequence of LocalDepthCache::update calls no level of the bids or of the
\* asks has quantity zero.
C5_NoZeroQuantityLevel ==
    NoZero(orderbook.depth.bids) /\ NoZero(orderbook.depth.asks)

C7_DisconnectEmitsOneEvent ==
    /\ step.trigger # None =>
          step.was = "Connected" /\ state = "Disconnected" /\ Count(output, "Disconnected") = 1
    /\ (step.was = "Connected" /\ state = "Disconnected") => Count(output, "Disconnected") = 1

\* C7 witness: a kline stream that lost its connection on a Close frame
C7_Witness ==
    /\ kind = "kline" /\ step.trigger = "close"
    /\ state = "Disconnected" /\ Count(output, "Disconnected") = 1

\* C8: the trades delivered so far followed by the buffered ones are the trades decoded, in
\* arrival order; a DepthReceived carries the whole buffer and leaves it empty.
C8_TradesDeliveredOnce ==
    kind = "market" =>
        /\ delivered \o trades_buffer = decoded
        /\ Has(output, "DepthReceived") => trades_buffer = <<>>
        /\ Len(TradesOf(output)) <= Len(delivered)

\* C8 witness: a DepthReceived that carries every trade decoded, two or more, after an
\* earlier one delivered none
C8_Witness ==
    /\ kind = "market" /\ Has(output, "DepthReceived")
    /\ Len(TradesOf(output)) >= 2 /\ delivered = decoded

\* C9: an Event::Disconnected that follows another one of the same stream, with no
\* Event::Connected in between, is emitted at least the backoff after it.
C9_BackoffBetweenDisconnected ==
    step.disc_gap = -1 \/ step.disc_gap >= BackoffSecs

\* C10: a connect attempt that leaves the stream Disconnected has slept the backoff and
\* then emitted exactly one Event::Disconnected.
C10_FailedAttemptBacksOffAndEmits ==
    (step.op = "connect" /\ state = "Disconnected") =>
        /\ Count(output, "Disconnected") = 1
        /\ step.slept >= BackoffSecs

C12_DecodeFailureSkipped ==
    [][step'.op = "ignored" =>
          /\ state = "Connected" /\ state' = "Connected"
          /\ orderbook' = orderbook
          /\ prev_id' = prev_id
          /\ trades_buffer' = trades_buffer
          /\ output' = <<>>]_vars

\* C12 witness: a rejected frame handled while trades are buffered over a book that has
\* folded a diff
C12_Witness ==
    /\ step.op = "ignored" /\ state = "Connected"
    /\ trades_buffer # <<>> /\ orderbook.last_update_id > 0 /\ prev_id > 0


\* C15: within one wall-clock window a FixedWindowBucket admits without a wait no more
\* weight than max_tokens, wherever in the window the calls fall.
C15_WindowBudgetNeverExceeded ==
    limiter.type = "FixedWindowBucket" => usage.admitted <= limiter.max_tokens

\* C16: of consecutive weight-1 requests to a bucket of capacity 10 and window 60 s inside
\* one window, the first 10 are admitted with no wait and the 11th is told to wait d with
\* 0 < d <= 60 s.
C16_TenAdmittedEleventhWaits ==
    (/\ limiter.type = "FixedWindowBucket"
     /\ limiter.max_tokens = 10 /\ limiter.refill_rate = from_secs(60)
     /\ call.op = "calculate_wait_time"
     /\ ~usage.consumed /\ usage.requested = usage.calls)
    => /\ usage.calls <= 10 => call.wait = NoneOpt
       /\ usage.calls = 11 => /\ call.wait # NoneOpt
                              /\ 0 < call.wait[1] /\ call.wait[1] <= from_secs(60)
\* the last call was DynamicBucket::prepare_request while the venue's last report of a
\* used weight U > 0 was no older than one window
FreshUsage ==
    /\ limiter.type = "DynamicBucket"
    /\ call.op = "prepare_request"
    /\ usage.last_report # NoneOpt
    /\ call.at - usage.last_report[1].at <= limiter.refill_rate

\* ticks from t to the next wall-clock boundary of windows of length refill_rate
ToBoundary(refill_rate, t) == refill_rate - (t % refill_rate)

\* C17 as claimed: under a fresh usage U a request of weight w is admitted without wait
\* exactly when U + w <= max_weight, and the wait is the time left to the next window
\* boundary plus 500 ms.
C17_FreshUsageWaitsToBoundary ==
    FreshUsage =>
        /\ call.wait = NoneOpt <=> usage.last_report[1].used + call.weight <= limiter.max_weight
        /\ call.wait # NoneOpt =>
              call.wait[1] = ToBoundary(limiter.refill_rate, call.at) + from_millis_500

\* C17 amended: under a fresh usage U a request of weight w is admitted without wait
\* exactly when U + w <= max_weight, whatever the fallback bucket holds; the wait is 500 ms
\* more than the time left to the next window boundary counted in whole seconds from the
\* start of the current second, so up to a second longer than the time left.
C17_FreshUsageWaitsWholeSeconds ==
    FreshUsage =>
        /\ call.wait = NoneOpt <=> usage.last_report[1].used + call.weight <= limiter.max_weight
        /\ call.wait # NoneOpt =>
              LET d == call.wait[1] - from_millis_500
              IN  /\ d % TicksPerSec = 0
                  /\ ToBoundary(limiter.refill_rate, call.at) <= d
                  /\ d < ToBoundary(limiter.refill_rate, call.at) + TicksPerSec

\* C17 witness: half a second into a second, a request of weight 2 is delayed under a
\* fresh usage of max_weight - 1 although the fallback bucket holds tokens for it
C17_Witness ==
    /\ FreshUsage
    /\ call.weight = 2 /\ usage.last_report[1].used = limiter.max_weight - 1
    /\ call.wait # NoneOpt
    /\ call.before.fallback_bucket.available_tokens >= call.weight
    /\ call.at % TicksPerSec = 1

\* C18: prepare_request decides by the header rule exactly when a used weight was
\* reported no longer than one window ago, and by the fallback bucket otherwise; the
\* fallback bucket has the capacity and window of the dynamic bucket, and only a decision
\* by the fallback touches its tokens.
C18_HeaderRuleOnlyWhileFresh ==
    limiter.type = "DynamicBucket" =>
        /\ limiter.fallback_bucket.max_tokens = limiter.max_weight
        /\ limiter.fallback_bucket.refill_rate = limiter.refill_rate
        /\ call.op = "update_weight" => limiter.fallback_bucket = call.before.fallback_bucket
        /\ call.op = "prepare_request" =>
              /\ call.rule = "header" <=> FreshUsage
              /\ call.rule = "header" =>
                    limiter.fallback_bucket = call.before.fallback_bucket
              /\ call.rule # "header" =>
                    /\ call.rule = "fallback"
                    /\ call.wait = NoneOpt =>
                          limiter.fallback_bucket.available_tokens + call.weight
                              <= limiter.max_weight
                    /\ call.wait # NoneOpt =>
                          limiter.fallback_bucket.available_tokens < call.weight

\* C18 witness: a request decided by the fallback bucket, which gives up tokens for it,
\* after the last reported usage went stale
C18_Witness ==
    /\ limiter.type = "DynamicBucket" /\ call.op = "prepare_request"
    /\ usage.last_report # NoneOpt /\ ~FreshUsage
    /\ call.rule = "fallback" /\ call.wait = NoneOpt
    /\ limiter.fallback_bucket.available_tokens < limiter.max_weight
\* C13: the limiter mutex is not held by a task that is in its rate-limit sleep or whose
\* request is in flight, so another task can run prepare_request meanwhile.
C13_MutexFreeDuringSleepAndSend ==
    \A t \in DOMAIN tasks :
        tasks[t].pc \in {"sleeping", "sending"} => limiter_guard # Some(t)

\* C14: every request on its way to a venue was preceded by prepare_request on the venue's
\* limiter, and by a sleep of the wait that prepare_request returned.
C14_EveryRequestPrepared ==
    \A t \in DOMAIN tasks :
        tasks[t].pc \in {"sending", "sending_ticksize"} =>
            /\ tasks[t].prepared # NoneOpt
            /\ tasks[t].prepared[1].wait # NoneOpt =>
                  now >= tasks[t].prepared[1].at + tasks[t].prepared[1].wait[1]

\* C19: on every venue a response of status 429 or 418 ends the process, and the limiter
\* is not updated from it.
C19_BanStatusExitsOnEveryVenue ==
    (call.op = "response" /\ call.status \in {429, 418}) =>
        /\ pc = "exited"
        /\ limiter = call.before
\* C20: while the snapshot fetch started by try_resync is pending, the Binance market-stream
\* task can take the next frame off the transport.
C20_ReadsFramesWhileFetching ==
    (BinanceMarket /\ pc = "resync") => ENABLED BinanceReadFrame
C22_EqualByVenueAndSymbol ==
    \A i, j \in DOMAIN result :
        (result[i].exchange = result[j].exchange /\ as_str(result[i]) = as_str(result[j]))
        => /\ Ticker_eq(result[i], result[j])
           /\ Ticker_hash(result[i]) = Ticker_hash(result[j])
Abs(x) == IF x < 0 THEN -x ELSE x

\* C23: for every price of the word range and every step, round_to_side_step returns a
\* value at or below the price for the bid side and at or above it for the ask side; for a
\* step above 1 the value is a multiple of the step less than one step from the price.
C23_SideStepNeverCrossesPrice ==
    (result # <<>> /\ result.op = "round_to_side_step") =>
        /\ result.out # Panic
        /\ result.is_sell_or_bid => result.out[1] <= result.units
        /\ ~result.is_sell_or_bid => result.out[1] >= result.units
        /\ result.step > 1 =>
              /\ result.out[1] % result.step = 0
              /\ Abs(result.out[1] - result.units) < result.step
\* the multiple of unit nearest to u, the one farther from zero of two equally near
NearestAwayFromZero(u, unit) ==
    LET lo == (u \div unit) * unit
    IN  CHOOSE r \in {lo, lo + unit} :
            /\ 2 * Abs(r - u) <= unit
            /\ 2 * Abs(r - u) = unit => Abs(r) > Abs(u)

\* the count of atomic units a text of fmt_into stands for
Printed(f) ==
    (IF f.negative THEN -1 ELSE 1)
        * (f.int_part * Pow10(PRICE_SCALE) + f.frac_part * Pow10(PRICE_SCALE - f.decimals))

\* C24: the text of a price at precision 10^k stands for the multiple of 10^(8+k) units
\* nearest to the price, ties away from zero, with its integer part in full; a multiple of
\* the precision unit is printed unchanged; and the text of -p is '-' followed by the text
\* of p wherever the rounded value is not zero.
C24_FormatsNearestSymmetric ==
    (result # <<>> /\ result.op = "fmt_into") =>
        LET unit == Pow10(PRICE_SCALE + result.power)
        IN  /\ Printed(result.out) = NearestAwayFromZero(result.units, unit)
            /\ result.units % unit = 0 => Printed(result.out) = result.units
            /\ (result.units > 0 /\ Printed(result.out) # 0) =>
                  result.mirror.text = <<"-">> \o result.out.text

\* C25: round_to_step returns, for every price of either sign, a multiple of the step
\* within half a step of the price; rounding what it returned again returns the same; and
\* a step of 0 or 1 returns the price unchanged.
C25_RoundsToNearestIdempotent ==
    (result # <<>> /\ result.op = "round_to_step") =>
        /\ result.out # Panic
        /\ result.step <= 1 => result.out[1] = result.units
        /\ result.step > 1 =>
              /\ result.out[1] % result.step = 0
              /\ 2 * Abs(result.out[1] - result.units) <= result.step
        /\ result.again = result.out

\* the price a pair of a payload names, rounded to the minimum tick
TickOf(order) == round_to_min_tick(from_f32(order.price), ticker_info.min_ticksize)

\* the last pair among orders that names price p
LastAt(orders, p) ==
    orders[CHOOSE i \in DOMAIN orders :
              /\ TickOf(orders[i]) = p
              /\ \A j \in DOMAIN orders : TickOf(orders[j]) = p => j <= i]

\* one side after a diff: the last pair naming a price decides it, the rest is as before
DiffApplied(before, orders, after) ==
    LET named == {TickOf(orders[i]) : i \in DOMAIN orders}
    IN  /\ \A p \in named :
              LET qty == LastAt(orders, p).qty
              IN  IF qty = 0 THEN p \notin DOMAIN after
                  ELSE p \in DOMAIN after /\ after[p] = qty
        /\ \A p \in (DOMAIN before \cup DOMAIN after) \ named :
              /\ p \in DOMAIN before
              /\ p \in DOMAIN after
              /\ after[p] = before[p]

\* C26: a Diff applied to a LocalDepthCache takes its pairs in order: a pair of quantity
\* zero leaves its tick-rounded price absent from its side, a pair of another quantity
\* leaves it present with that quantity, every level the diff does not name keeps its
\* quantity, and last_update_id and time become the diff's.
C26_DiffAppliedInOrder ==
    (result # <<>> /\ result.op = "update" /\ result.tag = "Diff") =>
        /\ DiffApplied(result.before.depth.bids, result.payload.bids, orderbook.depth.bids)
        /\ DiffApplied(result.before.depth.asks, result.payload.asks, orderbook.depth.asks)
        /\ orderbook.last_update_id = result.payload.last_update_id
        /\ orderbook.time = result.payload.time

\* a diff removed a level that was there, named one price twice, and left another level
C26_Witness ==
    /\ result # <<>> /\ result.op = "update" /\ result.tag = "Diff"
    /\ result.payload.bids = <<[price |-> 19, qty |-> 0], [price |-> 28, qty |-> 2]>>
    /\ result.before.depth.bids = (10 :> 1)
    /\ result.before.depth.asks = (20 :> 2)
    /\ orderbook.depth.bids = (10 :> 2)
    /\ orderbook.depth.asks = (20 :> 2)
    /\ orderbook.last_update_id # result.before.last_update_id
    /\ orderbook.time # result.before.time

\* one side after a snapshot: the prices its pairs name and nothing else, each with the
\* quantity of the last pair that names it
SnapshotApplied(orders, after) ==
    /\ DOMAIN after = {TickOf(orders[i]) : i \in DOMAIN orders}
    /\ \A p \in DOMAIN after : after[p] = LastAt(orders, p).qty

\* C27: a Snapshot applied to a LocalDepthCache replaces both sides wholesale, whatever the
\* cache held before (the book of a previous session included): bids and asks are exactly
\* the snapshot's levels at tick-rounded prices, and last_update_id is the snapshot's.
C27_SnapshotReplacesWholesale ==
    (result # <<>> /\ result.op = "update" /\ result.tag = "Snapshot") =>
        /\ SnapshotApplied(result.payload.bids, orderbook.depth.bids)
        /\ SnapshotApplied(result.payload.asks, orderbook.depth.asks)
        /\ orderbook.last_update_id = result.payload.last_update_id

\* a snapshot that names neither level of the cache replaced a cache of two levels
C27_Witness ==
    /\ result # <<>> /\ result.op = "update" /\ result.tag = "Snapshot"
    /\ result.before.depth.bids = (10 :> 1)
    /\ result.before.depth.asks = (20 :> 2)
    /\ result.payload.bids = <<[price |-> 41, qty |-> 1]>>
    /\ result.payload.asks = <<>>
    /\ orderbook.depth.bids = (20 :> 1)
    /\ orderbook.depth.asks = EmptyMap
    /\ orderbook.last_update_id # result.before.last_update_id

C29_UnitReadAtConstruction ==
    /\ \A i \in DOMAIN trades_buffer : trades_buffer[i].unit = trades_buffer[i].preferred
    /\ \A k \in DOMAIN output :
          output[k].type = "DepthReceived" =>
              /\ output[k].depth_unit = output[k].preferred
              /\ \A i \in DOMAIN output[k].trades :
                    LET trade == output[k].trades[i]
                    IN  /\ trade.unit = trade.preferred
                        /\ trade.preferred = output[k].preferred =>
                              trade.unit = output[k].depth_unit

\* C30: get_hist_trades issues a download request for an archive if and only if no
\* present, readable cache file exists for it.
C30_DownloadsIffNoReadableFile ==
    (result # <<>> /\ result.op = "get_hist_trades") =>
        (result.downloads > 0 <=> ~(result.before # NoneOpt /\ result.before[1].readable))

\* C30 as the code has it: once the cache directory exists or was created, get_hist_trades
\* issues a download request if and only if no file is present at the cache path, readable
\* or not; a present and readable file is reused with no download request, and a present
\* file that cannot be opened fails the call with no download request.
C30_DownloadsIffNoFile ==
    (result # <<>> /\ result.op = "get_hist_trades" /\ result.dir_ok) =>
        /\ result.downloads > 0 <=> result.before = NoneOpt
        /\ (result.before # NoneOpt /\ result.before[1].readable) =>
              /\ result.downloads = 0
              /\ cache_files[result.date] = result.before
        /\ (result.before # NoneOpt /\ ~result.before[1].readable) =>
              /\ result.downloads = 0
              /\ result.ret = "ParseError: open compressed file"

\* a readable cached archive was reused while the archive of another date has no file
C30_Witness ==
    /\ result # <<>> /\ result.op = "get_hist_trades" /\ result.dir_ok
    /\ result.before = Some([readable |-> TRUE, content |-> "trades"])
    /\ result.downloads = 0
    /\ result.ret = "Ok"
    /\ \E d \in Dates \ {result.date} : cache_files[d] = NoneOpt

\* C31: when the daily archive, cached or just downloaded, cannot be decompressed,
\* fetch_trades returns an error, and the error names the path of the failing file.
C31_UnzipFailureSurfacedWithPath ==
    (result # <<>> /\ result.op = "fetch_trades"
        /\ result.hist = Some("ParseError: unzip file")) =>
        /\ result.ret # "Ok"
        /\ names_path(result.ret)

\* C32: for every finite in-range f32 x, Price::from_f32(x).to_f32() differs
\* from x by at most one atomic unit (10^-8).
C32_RoundTripWithinAtomicUnit ==
    (result # <<>> /\ result.op = "to_f32") =>
        within_atomic_unit(result.back[1], result.x)

\* C33: in the event sequence of a market stream every DepthReceived is preceded by a
\* Connected with no Disconnected between the two.
C33_DepthOnlyInsideSession ==
    [][kind = "market" =>
          \A i \in DOMAIN output' :
             output'[i].type = "DepthReceived" =>
                SessionAfter(session, SubSeq(output', 1, i - 1))]_vars

\* C34: in the Binance market stream every diff that is applied has a final_id strictly
\* greater than the last_update_id the cache has when the diff is applied, the diff
\* applied right after a resync snapshot included.
C34_AppliedDiffAdvancesCache ==
    (BinanceMarket /\ step.applied # NoneOpt) =>
        step.applied[1].final_id > step.applied[1].pre

\* C35: through the fixed-window limiters (OKX, Hyperliquid) a request of weight w that
\* is admitted without a wait lowers the available tokens by exactly w over its whole
\* prepare_request / update_from_response cycle when no refill falls into the cycle.
C35_AdmittedRequestChargedOnce ==
    [][\A t \in TaskIds :
          (/\ limiter.type \in {"OkexLimiter", "HyperliquidLimiter"}
           /\ call.op = "prepare_request" /\ call.task = t /\ call.wait = NoneOpt
           /\ call'.op = "response" /\ call'.task = t /\ tasks'[t].pc = "reading"
           /\ refill(call.before.bucket, call.at) = call.before.bucket
           /\ refill(limiter.bucket, now) = limiter.bucket)
          => limiter'.bucket.available_tokens =
                call.before.bucket.available_tokens - call.weight]_vars

\* C36: for every market kind and every range with start <= end, ranges shorter than one
\* interval included, Binance fetch_klines selects a request weight from its limit table
\* and issues the request; it never reaches the "Invalid limit" panic.
C36_KlineWeightAlwaysSelected ==
    (result # <<>> /\ result.op = "fetch_klines") =>
        /\ result.weight # Panic
        /\ result.weight[1] \in {1, 2, 5, 10}
        /\ result.issued

\* C37: in the market and kline streams of every adapter a connect attempt emits
\* Connected and sets the state to Connected only if every subscription message was
\* written; a failed subscription write leaves the stream Disconnected.
C37_ConnectedOnlyIfSubscribed ==
    (step.op = "connect" /\ step.subscribed = "err") =>
        /\ state = "Disconnected"
        /\ ~Has(output, "Connected")

\* C38 as stated: whenever a market stream enters Connected its trade buffer is empty:
\* trades buffered before a disconnect are not delivered with the first depth event of
\* the next session.
C38_BufferEmptyOnConnect ==
    (kind = "market" /\ step.was = "Disconnected" /\ state = "Connected") =>
        trades_buffer = <<>>

\* C38, amended: a market stream that enters Connected has the trade buffer the last
\* session left, so trades buffered before a disconnect stay buffered for the first
\* depth event of the next session.
C38_BufferKeptOnConnect ==
    [][(kind = "market" /\ state = "Disconnected" /\ state' = "Connected") =>
          trades_buffer' = trades_buffer]_vars

\* C38 witness: a session starts with a trade of the session before in the buffer
C38_Witness ==
    /\ kind = "market" /\ step.op = "connect"
    /\ step.was = "Disconnected" /\ state = "Connected"
    /\ trades_buffer # <<>>

\* C39: in the Binance market stream, whenever a depth frame is about to be examined,
\* prev_id is either 0 (no diff applied since the last connect snapshot) or equal to the
\* last_update_id of the LocalDepthCache.
C39_PrevIdZeroOrCacheId ==
    (BinanceMarket /\ state = "Connected" /\ pc = "loop") =>
        \/ prev_id = 0
        \/ prev_id = orderbook.last_update_id

\* C39 witness: a diff has been applied, and the next depth frame finds prev_id equal
\* to the cache's id
C39_Witness ==
    /\ BinanceMarket /\ state = "Connected" /\ pc = "loop"
    /\ step.op = "depth" /\ step.applied # NoneOpt
    /\ prev_id # 0 /\ prev_id = orderbook.last_update_id
    /\ ENABLED BinanceReadDepth

====
